---- MODULE Spec2Model ----
(***************************************************************************)
(* The level editor of FishFight: the Editor node (src/editor/mod.rs), its *)
(* EditorAction dispatch, the selection repair pass, the per-frame input   *)
(* handling and the drag state machine, over the Map document, the         *)
(* UndoableAction variants and the EditorHistory.                          *)
(*                                                                         *)
(* The modules editor/actions, editor/history, editor/tools and            *)
(* ff_core::map are not part of the sources at hand; their behaviour is    *)
(* taken from the design document (sections 3, 4.1, 4.2 and 4.4).          *)
(***************************************************************************)
EXTENDS Integers, Sequences, FiniteSets, TLC

(***************************************************************************)
(* Bounds of the model.                                                    *)
(***************************************************************************)
\* how many undoable actions are pushed onto the history in one run
MaxApplies == 2
\* how many undoable actions are pushed onto the history in one run of input frames
MaxFrameApplies == 1
\* objects per object layer
MaxObjects == 2
\* spawn points per map
MaxSpawnPoints == 2
\* positions are 0..MaxPos (an abstraction of Vec2)
MaxPos == 1
\* index arguments of actions are 0..MaxIndex
MaxIndex == 2
\* tile ids given to SelectTile / PlaceTile are 0..MaxTileId
MaxTileId == 3
\* the tile grid of every map is GridWidth x GridHeight
GridWidth == 2
GridHeight == 1

(***************************************************************************)
(* Option<T>                                                               *)
(***************************************************************************)
None == << >>
Some(x) == << x >>
is_some(o) == o # << >>
is_none(o) == o = << >>
unwrap(o) == o[1]

(***************************************************************************)
(* Vec<T> helpers.                                                         *)
(***************************************************************************)
\* Vec::insert(i, x), 0-based, i <= len
InsertAt(s, i, x) == SubSeq(s, 1, i) \o << x >> \o SubSeq(s, i + 1, Len(s))
\* Vec::remove(i), 0-based, i < len
RemoveAt(s, i) == SubSeq(s, 1, i) \o SubSeq(s, i + 2, Len(s))
\* slice.contains(x)
Contains(s, x) == \E i \in 1..Len(s) : s[i] = x
\* position of the first x in s, 0-based (s contains x)
IndexOf(s, x) == (CHOOSE i \in 1..Len(s) : s[i] = x /\ \A j \in 1..(i - 1) : s[j] # x) - 1
Min(a, b) == IF a <= b THEN a ELSE b
\* HashMap insert / remove
WithKey(f, k, v) == [x \in (DOMAIN f) \cup {k} |-> IF x = k THEN v ELSE f[x]]
WithoutKey(f, k) == [x \in (DOMAIN f) \ {k} |-> f[x]]
EmptyMapping == [x \in {} |-> x]

(***************************************************************************)
(* The value sets the inputs are drawn from.                               *)
(***************************************************************************)
LayerIds == {"bg", "objects"}
LayerKinds == {"TileLayer", "ObjectLayer"}
TilesetIds == {"ts1", "ts2"}
TextureIds == {"tex1", "tex2"}
ObjectIds == {"sproinger"}
MapObjectKinds == {"Item", "Decoration", "Environment"}
Colors == {"black", "white"}
Pos == 0..MaxPos
Coords == (0..(GridWidth - 1)) \X (0..(GridHeight - 1))
TileIds == 0..MaxTileId
Indices == 0..MaxIndex

(***************************************************************************)
(* Map data model (design document, section 3).                            *)
(***************************************************************************)
\* number of tiles of a tileset built on a texture (texture size / tile size)
TextureTileCnt(texture_id) == IF texture_id = "tex1" THEN 2 ELSE 1

NoTiles == [c \in Coords |-> None]

MapLayer(id, kind, has_collision) ==
    [id |-> id, kind |-> kind, has_collision |-> has_collision,
     is_visible |-> TRUE, tiles |-> NoTiles, objects |-> << >>]

MapTile(tile_id, tileset_id) ==
    [tile_id |-> tile_id, tileset_id |-> tileset_id, attributes |-> "none"]

MapObject(id, kind, position) == [id |-> id, kind |-> kind, position |-> position]

\* the first tile id not used by any tileset of the map
NextFirstTileId(m) ==
    LET ends == {m.tilesets[t].first_tile_id + m.tilesets[t].tile_cnt : t \in DOMAIN m.tilesets}
    IN IF ends = {} THEN 0 ELSE CHOOSE e \in ends : \A o \in ends : o <= e

MapTileset(m, id, texture_id) ==
    [id |-> id, texture_id |-> texture_id, first_tile_id |-> NextFirstTileId(m),
     tile_cnt |-> TextureTileCnt(texture_id), autotile_mask |-> FALSE]

NewMap ==
    [background_color |-> "black", background_layers |-> << >>,
     layers |-> EmptyMapping, draw_order |-> << >>,
     tilesets |-> EmptyMapping, spawn_points |-> << >>]

\* Map::to_index(coords) and its inverse as used by the editor
to_index(coords) == coords[2] * GridWidth + coords[1]

(***************************************************************************)
(* Result<()> of UndoableAction::apply and ::undo: the map as changed and  *)
(* the action with what it captured.                                       *)
(***************************************************************************)
Ok(m, a) == [ok |-> TRUE, map |-> m, action |-> a]
Err == [ok |-> FALSE]

(***************************************************************************)
(* UndoableAction variants (design document, sections 4.1 and 4.4).  Each  *)
(* apply fails with a Map-consistency error when what it refers to does    *)
(* not exist, captures what its undo needs, and changes the map; each undo *)
(* puts back what apply captured.                                          *)
(***************************************************************************)
IsLayerOfKind(m, layer_id, kind) ==
    layer_id \in DOMAIN m.layers /\ m.layers[layer_id].kind = kind

CreateLayerAction_apply(a, m) ==
    IF a.id \in DOMAIN m.layers \/ Contains(m.draw_order, a.id) THEN Err
    ELSE Ok([m EXCEPT !.layers = WithKey(@, a.id, MapLayer(a.id, a.kind, a.has_collision)),
                      !.draw_order = InsertAt(@, Min(a.index, Len(@)), a.id)], a)

CreateLayerAction_undo(a, m) ==
    IF a.id \notin DOMAIN m.layers \/ ~Contains(m.draw_order, a.id) THEN Err
    ELSE Ok([m EXCEPT !.layers = WithoutKey(@, a.id),
                      !.draw_order = RemoveAt(@, IndexOf(@, a.id))], a)

\* DeleteLayer that leaves the id in draw_order
DeleteLayerAction_apply_keeps_order(a, m) ==
    IF a.id \notin DOMAIN m.layers \/ ~Contains(m.draw_order, a.id) THEN Err
    ELSE Ok([m EXCEPT !.layers = WithoutKey(@, a.id)],
            [type |-> "DeleteLayer", id |-> a.id, layer |-> m.layers[a.id],
             draw_order_index |-> IndexOf(m.draw_order, a.id)])

DeleteLayerAction_apply(a, m) ==
    IF a.id \notin DOMAIN m.layers \/ ~Contains(m.draw_order, a.id) THEN Err
    ELSE Ok([m EXCEPT !.layers = WithoutKey(@, a.id),
                      !.draw_order = RemoveAt(@, IndexOf(@, a.id))],
            [type |-> "DeleteLayer", id |-> a.id, layer |-> m.layers[a.id],
             draw_order_index |-> IndexOf(m.draw_order, a.id)])

\* undo of DeleteLayer that puts the layer back at the end of draw_order
DeleteLayerAction_undo_appends(a, m) ==
    IF a.id \in DOMAIN m.layers \/ a.draw_order_index > Len(m.draw_order) THEN Err
    ELSE Ok([m EXCEPT !.layers = WithKey(@, a.id, a.layer),
                      !.draw_order = Append(@, a.id)], a)

DeleteLayerAction_undo(a, m) ==
    IF a.id \in DOMAIN m.layers \/ a.draw_order_index > Len(m.draw_order) THEN Err
    ELSE Ok([m EXCEPT !.layers = WithKey(@, a.id, a.layer),
                      !.draw_order = InsertAt(@, a.draw_order_index, a.id)], a)

UpdateLayerAction_apply(a, m) ==
    IF a.id \notin DOMAIN m.layers THEN Err
    ELSE Ok([m EXCEPT !.layers[a.id].is_visible = a.is_visible],
            [type |-> "UpdateLayer", id |-> a.id, is_visible |-> a.is_visible,
             old_is_visible |-> m.layers[a.id].is_visible])

UpdateLayerAction_undo(a, m) ==
    IF a.id \notin DOMAIN m.layers THEN Err
    ELSE Ok([m EXCEPT !.layers[a.id].is_visible = a.old_is_visible], a)

\* removes the id from draw_order, then reinserts it at min(index, len)
\* SetLayerDrawOrderIndex that takes index as a position of the sequence before the
\* removal: a layer moved towards the end lands one place short
SetLayerDrawOrderIndexAction_apply_counts_removed(a, m) ==
    IF ~Contains(m.draw_order, a.id) THEN Err
    ELSE LET old == IndexOf(m.draw_order, a.id)
             rest == RemoveAt(m.draw_order, old)
             at == IF old < a.index THEN a.index - 1 ELSE a.index
         IN Ok([m EXCEPT !.draw_order = InsertAt(rest, Min(at, Len(rest)), a.id)],
               [type |-> "SetLayerDrawOrderIndex", id |-> a.id, index |-> a.index,
                old_index |-> old])

SetLayerDrawOrderIndexAction_apply(a, m) ==
    IF ~Contains(m.draw_order, a.id) THEN Err
    ELSE LET old == IndexOf(m.draw_order, a.id)
             rest == RemoveAt(m.draw_order, old)
         IN Ok([m EXCEPT !.draw_order = InsertAt(rest, Min(a.index, Len(rest)), a.id)],
               [type |-> "SetLayerDrawOrderIndex", id |-> a.id, index |-> a.index,
                old_index |-> old])

SetLayerDrawOrderIndexAction_undo(a, m) ==
    IF ~Contains(m.draw_order, a.id) THEN Err
    ELSE LET rest == RemoveAt(m.draw_order, IndexOf(m.draw_order, a.id))
         IN IF a.old_index > Len(rest) THEN Err
            ELSE Ok([m EXCEPT !.draw_order = InsertAt(rest, a.old_index, a.id)], a)

CreateTilesetAction_apply(a, m) ==
    IF a.id \in DOMAIN m.tilesets THEN Err
    ELSE Ok([m EXCEPT !.tilesets = WithKey(@, a.id, MapTileset(m, a.id, a.texture_id))], a)

CreateTilesetAction_undo(a, m) ==
    IF a.id \notin DOMAIN m.tilesets THEN Err
    ELSE Ok([m EXCEPT !.tilesets = WithoutKey(@, a.id)], a)

DeleteTilesetAction_apply(a, m) ==
    IF a.id \notin DOMAIN m.tilesets THEN Err
    ELSE Ok([m EXCEPT !.tilesets = WithoutKey(@, a.id)],
            [type |-> "DeleteTileset", id |-> a.id, tileset |-> m.tilesets[a.id]])

DeleteTilesetAction_undo(a, m) ==
    IF a.id \in DOMAIN m.tilesets THEN Err
    ELSE Ok([m EXCEPT !.tilesets = WithKey(@, a.id, a.tileset)], a)

UpdateTilesetAction_apply(a, m) ==
    IF a.id \notin DOMAIN m.tilesets THEN Err
    ELSE Ok([m EXCEPT !.tilesets[a.id].texture_id = a.texture_id,
                      !.tilesets[a.id].autotile_mask = a.autotile_mask],
            [type |-> "UpdateTileset", id |-> a.id, texture_id |-> a.texture_id,
             autotile_mask |-> a.autotile_mask, old |-> m.tilesets[a.id]])

UpdateTilesetAction_undo(a, m) ==
    IF a.id \notin DOMAIN m.tilesets THEN Err
    ELSE Ok([m EXCEPT !.tilesets[a.id] = a.old], a)

CreateObjectAction_apply(a, m) ==
    IF ~IsLayerOfKind(m, a.layer_id, "ObjectLayer") THEN Err
    ELSE Ok([m EXCEPT !.layers[a.layer_id].objects =
                          Append(@, MapObject(a.id, a.kind, a.position))], a)

CreateObjectAction_undo(a, m) ==
    IF ~IsLayerOfKind(m, a.layer_id, "ObjectLayer") THEN Err
    ELSE IF m.layers[a.layer_id].objects = << >> THEN Err
    ELSE Ok([m EXCEPT !.layers[a.layer_id].objects = SubSeq(@, 1, Len(@) - 1)], a)

DeleteObjectAction_apply(a, m) ==
    IF ~IsLayerOfKind(m, a.layer_id, "ObjectLayer") THEN Err
    ELSE IF a.index >= Len(m.layers[a.layer_id].objects) THEN Err
    ELSE Ok([m EXCEPT !.layers[a.layer_id].objects = RemoveAt(@, a.index)],
            [type |-> "DeleteObject", index |-> a.index, layer_id |-> a.layer_id,
             object |-> m.layers[a.layer_id].objects[a.index + 1]])

DeleteObjectAction_undo(a, m) ==
    IF ~IsLayerOfKind(m, a.layer_id, "ObjectLayer") THEN Err
    ELSE IF a.index > Len(m.layers[a.layer_id].objects) THEN Err
    ELSE Ok([m EXCEPT !.layers[a.layer_id].objects = InsertAt(@, a.index, a.object)], a)

UpdateObjectAction_apply(a, m) ==
    IF ~IsLayerOfKind(m, a.layer_id, "ObjectLayer") THEN Err
    ELSE IF a.index >= Len(m.layers[a.layer_id].objects) THEN Err
    ELSE Ok([m EXCEPT !.layers[a.layer_id].objects[a.index + 1] =
                          MapObject(a.id, a.kind, a.position)],
            [type |-> "UpdateObject", layer_id |-> a.layer_id, index |-> a.index,
             id |-> a.id, kind |-> a.kind, position |-> a.position,
             old |-> m.layers[a.layer_id].objects[a.index + 1]])

UpdateObjectAction_undo(a, m) ==
    IF ~IsLayerOfKind(m, a.layer_id, "ObjectLayer") THEN Err
    ELSE IF a.index >= Len(m.layers[a.layer_id].objects) THEN Err
    ELSE Ok([m EXCEPT !.layers[a.layer_id].objects[a.index + 1] = a.old], a)

CreateSpawnPointAction_apply(a, m) ==
    Ok([m EXCEPT !.spawn_points = Append(@, a.position)], a)

CreateSpawnPointAction_undo(a, m) ==
    IF m.spawn_points = << >> THEN Err
    ELSE Ok([m EXCEPT !.spawn_points = SubSeq(@, 1, Len(@) - 1)], a)

\* DeleteSpawnPoint by Vec::swap_remove: the last entry takes the place of the
\* removed one
DeleteSpawnPointAction_apply_swaps(a, m) ==
    IF a.index >= Len(m.spawn_points) THEN Err
    ELSE Ok([m EXCEPT !.spawn_points =
                SubSeq([m.spawn_points EXCEPT
                           ![a.index + 1] = m.spawn_points[Len(m.spawn_points)]],
                       1, Len(m.spawn_points) - 1)],
            [type |-> "DeleteSpawnPoint", index |-> a.index,
             spawn_point |-> m.spawn_points[a.index + 1]])

\* removes exactly the entry at index; the later entries shift down by one
DeleteSpawnPointAction_apply(a, m) ==
    IF a.index >= Len(m.spawn_points) THEN Err
    ELSE Ok([m EXCEPT !.spawn_points = RemoveAt(@, a.index)],
            [type |-> "DeleteSpawnPoint", index |-> a.index,
             spawn_point |-> m.spawn_points[a.index + 1]])

DeleteSpawnPointAction_undo(a, m) ==
    IF a.index > Len(m.spawn_points) THEN Err
    ELSE Ok([m EXCEPT !.spawn_points = InsertAt(@, a.index, a.spawn_point)], a)

MoveSpawnPointAction_apply(a, m) ==
    IF a.index >= Len(m.spawn_points) THEN Err
    ELSE Ok([m EXCEPT !.spawn_points[a.index + 1] = a.position],
            [type |-> "MoveSpawnPoint", index |-> a.index, position |-> a.position,
             old_position |-> m.spawn_points[a.index + 1]])

MoveSpawnPointAction_undo(a, m) ==
    IF a.index >= Len(m.spawn_points) THEN Err
    ELSE Ok([m EXCEPT !.spawn_points[a.index + 1] = a.old_position], a)

\* sets the cell to (tileset_id, tile_id), capturing what was there
PlaceTileAction_apply(a, m) ==
    IF ~IsLayerOfKind(m, a.layer_id, "TileLayer") \/ a.tileset_id \notin DOMAIN m.tilesets
    THEN Err
    ELSE Ok([m EXCEPT !.layers[a.layer_id].tiles[a.coords] =
                          Some(MapTile(a.id, a.tileset_id))],
            [type |-> "PlaceTile", id |-> a.id, layer_id |-> a.layer_id,
             tileset_id |-> a.tileset_id, coords |-> a.coords,
             replaced_tile |-> m.layers[a.layer_id].tiles[a.coords]])

\* undo of PlaceTile that empties the cell, whatever it held before
PlaceTileAction_undo_clears(a, m) ==
    IF ~IsLayerOfKind(m, a.layer_id, "TileLayer") THEN Err
    ELSE Ok([m EXCEPT !.layers[a.layer_id].tiles[a.coords] = None], a)

PlaceTileAction_undo(a, m) ==
    IF ~IsLayerOfKind(m, a.layer_id, "TileLayer") THEN Err
    ELSE Ok([m EXCEPT !.layers[a.layer_id].tiles[a.coords] = a.replaced_tile], a)

RemoveTileAction_apply(a, m) ==
    IF ~IsLayerOfKind(m, a.layer_id, "TileLayer") THEN Err
    ELSE Ok([m EXCEPT !.layers[a.layer_id].tiles[a.coords] = None],
            [type |-> "RemoveTile", layer_id |-> a.layer_id, coords |-> a.coords,
             tile |-> m.layers[a.layer_id].tiles[a.coords]])

RemoveTileAction_undo(a, m) ==
    IF ~IsLayerOfKind(m, a.layer_id, "TileLayer") THEN Err
    ELSE Ok([m EXCEPT !.layers[a.layer_id].tiles[a.coords] = a.tile], a)

\* the coordinates of a tile index (the inverse of Map::to_index)
IndexCoords(index) == << index % GridWidth, index \div GridWidth >>

UpdateTileAttributesAction_apply(a, m) ==
    IF ~IsLayerOfKind(m, a.layer_id, "TileLayer") THEN Err
    ELSE IF IndexCoords(a.index) \notin Coords THEN Err
    ELSE IF is_none(m.layers[a.layer_id].tiles[IndexCoords(a.index)]) THEN Err
    ELSE LET c == IndexCoords(a.index)
             t == unwrap(m.layers[a.layer_id].tiles[c])
         IN Ok([m EXCEPT !.layers[a.layer_id].tiles[c] =
                             Some([t EXCEPT !.attributes = a.attributes])],
               [type |-> "UpdateTileAttributes", index |-> a.index,
                layer_id |-> a.layer_id, attributes |-> a.attributes,
                old_attributes |-> t.attributes])

UpdateTileAttributesAction_undo(a, m) ==
    IF ~IsLayerOfKind(m, a.layer_id, "TileLayer") THEN Err
    ELSE IF is_none(m.layers[a.layer_id].tiles[IndexCoords(a.index)]) THEN Err
    ELSE LET c == IndexCoords(a.index)
             t == unwrap(m.layers[a.layer_id].tiles[c])
         IN Ok([m EXCEPT !.layers[a.layer_id].tiles[c] =
                             Some([t EXCEPT !.attributes = a.old_attributes])], a)

UpdateBackgroundAction_apply(a, m) ==
    Ok([m EXCEPT !.background_color = a.color, !.background_layers = a.layers],
       [type |-> "UpdateBackground", color |-> a.color, layers |-> a.layers,
        old_color |-> m.background_color, old_layers |-> m.background_layers])

UpdateBackgroundAction_undo(a, m) ==
    Ok([m EXCEPT !.background_color = a.old_color, !.background_layers = a.old_layers], a)

\* merges the given tilesets and background into the map in one step
ImportAction_apply(a, m) ==
    LET ids == {a.tilesets[i].id : i \in 1..Len(a.tilesets)}
        given(id) == a.tilesets[CHOOSE i \in 1..Len(a.tilesets) :
                        a.tilesets[i].id = id /\ \A j \in (i + 1)..Len(a.tilesets) :
                                                    a.tilesets[j].id # id]
    IN Ok([m EXCEPT !.tilesets = [t \in (DOMAIN @) \cup ids |->
                                     IF t \in ids THEN given(t) ELSE @[t]],
                    !.background_color =
                        IF is_some(a.background_color) THEN unwrap(a.background_color) ELSE @,
                    !.background_layers = @ \o a.background_layers],
          [type |-> "Import", tilesets |-> a.tilesets,
           background_color |-> a.background_color,
           background_layers |-> a.background_layers,
           old_tilesets |-> m.tilesets, old_background_color |-> m.background_color,
           old_background_layers |-> m.background_layers])

\* undo of Import that removes the imported tilesets instead of putting back the
\* tilesets the map had
ImportAction_undo_removes_imported(a, m) ==
    Ok([m EXCEPT !.tilesets = [t \in (DOMAIN @) \ {a.tilesets[i].id : i \in 1..Len(a.tilesets)}
                                 |-> @[t]],
                 !.background_color = a.old_background_color,
                 !.background_layers = a.old_background_layers], a)

ImportAction_undo(a, m) ==
    Ok([m EXCEPT !.tilesets = a.old_tilesets,
                 !.background_color = a.old_background_color,
                 !.background_layers = a.old_background_layers], a)

\* the action types that are wrapped into an UndoableAction
UndoableTypes ==
    {"CreateLayer", "DeleteLayer", "UpdateLayer", "SetLayerDrawOrderIndex",
     "CreateTileset", "DeleteTileset", "UpdateTileset",
     "CreateObject", "DeleteObject", "UpdateObject",
     "CreateSpawnPoint", "DeleteSpawnPoint", "MoveSpawnPoint",
     "PlaceTile", "RemoveTile", "UpdateTileAttributes", "UpdateBackground", "Import"}

\* UndoableAction::apply, by variant
UndoableAction_apply(a, m) ==
    CASE a.type = "CreateLayer" -> CreateLayerAction_apply(a, m)
      [] a.type = "DeleteLayer" -> DeleteLayerAction_apply(a, m)
      [] a.type = "UpdateLayer" -> UpdateLayerAction_apply(a, m)
      [] a.type = "SetLayerDrawOrderIndex" -> SetLayerDrawOrderIndexAction_apply(a, m)
      [] a.type = "CreateTileset" -> CreateTilesetAction_apply(a, m)
      [] a.type = "DeleteTileset" -> DeleteTilesetAction_apply(a, m)
      [] a.type = "UpdateTileset" -> UpdateTilesetAction_apply(a, m)
      [] a.type = "CreateObject" -> CreateObjectAction_apply(a, m)
      [] a.type = "DeleteObject" -> DeleteObjectAction_apply(a, m)
      [] a.type = "UpdateObject" -> UpdateObjectAction_apply(a, m)
      [] a.type = "CreateSpawnPoint" -> CreateSpawnPointAction_apply(a, m)
      [] a.type = "DeleteSpawnPoint" -> DeleteSpawnPointAction_apply(a, m)
      [] a.type = "MoveSpawnPoint" -> MoveSpawnPointAction_apply(a, m)
      [] a.type = "PlaceTile" -> PlaceTileAction_apply(a, m)
      [] a.type = "RemoveTile" -> RemoveTileAction_apply(a, m)
      [] a.type = "UpdateTileAttributes" -> UpdateTileAttributesAction_apply(a, m)
      [] a.type = "UpdateBackground" -> UpdateBackgroundAction_apply(a, m)
      [] a.type = "Import" -> ImportAction_apply(a, m)

\* UndoableAction::undo, by variant
UndoableAction_undo(a, m) ==
    CASE a.type = "CreateLayer" -> CreateLayerAction_undo(a, m)
      [] a.type = "DeleteLayer" -> DeleteLayerAction_undo(a, m)
      [] a.type = "UpdateLayer" -> UpdateLayerAction_undo(a, m)
      [] a.type = "SetLayerDrawOrderIndex" -> SetLayerDrawOrderIndexAction_undo(a, m)
      [] a.type = "CreateTileset" -> CreateTilesetAction_undo(a, m)
      [] a.type = "DeleteTileset" -> DeleteTilesetAction_undo(a, m)
      [] a.type = "UpdateTileset" -> UpdateTilesetAction_undo(a, m)
      [] a.type = "CreateObject" -> CreateObjectAction_undo(a, m)
      [] a.type = "DeleteObject" -> DeleteObjectAction_undo(a, m)
      [] a.type = "UpdateObject" -> UpdateObjectAction_undo(a, m)
      [] a.type = "CreateSpawnPoint" -> CreateSpawnPointAction_undo(a, m)
      [] a.type = "DeleteSpawnPoint" -> DeleteSpawnPointAction_undo(a, m)
      [] a.type = "MoveSpawnPoint" -> MoveSpawnPointAction_undo(a, m)
      [] a.type = "PlaceTile" -> PlaceTileAction_undo(a, m)
      [] a.type = "RemoveTile" -> RemoveTileAction_undo(a, m)
      [] a.type = "UpdateTileAttributes" -> UpdateTileAttributesAction_undo(a, m)
      [] a.type = "UpdateBackground" -> UpdateBackgroundAction_undo(a, m)
      [] a.type = "Import" -> ImportAction_undo(a, m)

(***************************************************************************)
(* EditorHistory (design document, section 4.2): the undo stack and the    *)
(* cursor; the entries past the cursor are the redo tail.                  *)
(***************************************************************************)
EditorHistory_new == [undo_stack |-> << >>, cursor |-> 0]

\* Result of a history operation: the history and the map as left by it
HOk(h, m) == [ok |-> TRUE, history |-> h, map |-> m]
HErr(h, m) == [ok |-> FALSE, history |-> h, map |-> m]

\* apply that discards the redo tail before it calls the action
EditorHistory_apply_truncates_first(h, a, m) ==
    LET r == UndoableAction_apply(a, m)
        cut == SubSeq(h.undo_stack, 1, h.cursor)
    IN IF r.ok
       THEN HOk([undo_stack |-> Append(cut, r.action), cursor |-> h.cursor + 1], r.map)
       ELSE HErr([h EXCEPT !.undo_stack = cut], m)

\* apply: discards the redo tail, applies, pushes and advances the cursor;
\* a failed apply leaves the stack as it was
EditorHistory_apply(h, a, m) ==
    LET r == UndoableAction_apply(a, m)
    IN IF r.ok
       THEN HOk([undo_stack |-> Append(SubSeq(h.undo_stack, 1, h.cursor), r.action),
                 cursor |-> h.cursor + 1], r.map)
       ELSE HErr(h, m)

\* undo that reports an error when there is nothing to undo
EditorHistory_undo_fails_at_start(h, m) ==
    IF h.cursor = 0 THEN HErr(h, m)
    ELSE LET r == UndoableAction_undo(h.undo_stack[h.cursor], m)
         IN IF r.ok THEN HOk([h EXCEPT !.cursor = @ - 1], r.map) ELSE HErr(h, m)

\* undo: a no-op at cursor 0, else undoes stack[cursor - 1] and steps back
EditorHistory_undo(h, m) ==
    IF h.cursor = 0 THEN HOk(h, m)
    ELSE LET r == UndoableAction_undo(h.undo_stack[h.cursor], m)
         IN IF r.ok THEN HOk([h EXCEPT !.cursor = @ - 1], r.map) ELSE HErr(h, m)

\* redo: a no-op at the end of the stack, else applies stack[cursor] again
EditorHistory_redo(h, m) ==
    IF h.cursor = Len(h.undo_stack) THEN HOk(h, m)
    ELSE LET r == UndoableAction_apply(h.undo_stack[h.cursor + 1], m)
         IN IF r.ok
            THEN HOk([undo_stack |-> [h.undo_stack EXCEPT ![h.cursor + 1] = r.action],
                      cursor |-> h.cursor + 1], r.map)
            ELSE HErr(h, m)

EditorHistory_clear(h) == [undo_stack |-> << >>, cursor |-> 0]

(***************************************************************************)
(* Tools (editor/tools): the predicate a tool reports for a map and a      *)
(* context.                                                                *)
(***************************************************************************)
ToolIds == {"TilePlacementTool", "ObjectPlacementTool", "SpawnPointPlacementTool", "EraserTool"}

Tool_is_available(tool_id, m, ctx) ==
    CASE tool_id = "TilePlacementTool" ->
            is_some(ctx.selected_layer)
            /\ IsLayerOfKind(m, unwrap(ctx.selected_layer), "TileLayer")
      [] tool_id = "ObjectPlacementTool" ->
            is_some(ctx.selected_layer)
            /\ IsLayerOfKind(m, unwrap(ctx.selected_layer), "ObjectLayer")
      [] tool_id = "SpawnPointPlacementTool" -> TRUE
      [] tool_id = "EraserTool" -> is_some(ctx.selected_layer)

(***************************************************************************)
(* The Editor node.                                                        *)
(***************************************************************************)
\* Editor::new(map_resource): nothing selected but the first layer
Editor_new(m) ==
    [map |-> m,
     name |-> "map",
     path |-> << "maps", "map" >>,
     is_user_map |-> FALSE,
     is_tiled_map |-> FALSE,
     selected_tool |-> None,
     selected_layer |-> IF m.draw_order = << >> THEN None ELSE Some(m.draw_order[1]),
     selected_tileset |-> None,
     selected_tile |-> None,
     selected_object |-> None,
     selected_spawn_point |-> None,
     selected_map_tile_index |-> None,
     history |-> EditorHistory_new,
     input_action |-> FALSE,
     dragged_object |-> None,
     double_click_armed |-> FALSE,
     windows |-> {},
     panicked |-> FALSE,
     trail |-> << m >>,
     low |-> 0]

\* a panic!() or a failed unwrap(): the process ends
Panic(e) == [e EXCEPT !.panicked = TRUE]

get_context(e) ==
    [selected_tool |-> e.selected_tool,
     selected_layer |-> e.selected_layer,
     selected_tileset |-> e.selected_tileset,
     selected_tile |-> e.selected_tile,
     selected_object |-> e.selected_object]

\* update_context, lines 292-298: the selected layer
update_context_layer(e) ==
    IF is_some(e.selected_layer)
    THEN IF ~Contains(e.map.draw_order, unwrap(e.selected_layer))
         THEN [e EXCEPT !.selected_layer = None]
         ELSE e
    ELSE IF e.map.draw_order # << >>
         THEN [e EXCEPT !.selected_layer = Some(e.map.draw_order[1])]
         ELSE e

\* update_context without the match on the kind of the selected layer
update_context_kind_skipped(e) ==
    IF is_some(e.selected_layer) /\ unwrap(e.selected_layer) \notin DOMAIN e.map.layers
    THEN Panic(e)
    ELSE e

\* update_context, lines 300-312: the kind of the selected layer
update_context_kind(e) ==
    IF is_some(e.selected_layer)
    THEN IF unwrap(e.selected_layer) \notin DOMAIN e.map.layers
         THEN Panic(e)
         ELSE IF e.map.layers[unwrap(e.selected_layer)].kind = "TileLayer"
              THEN [e EXCEPT !.selected_object = None]
              ELSE [e EXCEPT !.selected_tileset = None, !.selected_tile = None]
    ELSE e

\* update_context, lines 314-325: the selected tileset and tile
update_context_tileset(e) ==
    IF is_some(e.selected_tileset)
    THEN IF unwrap(e.selected_tileset) \in DOMAIN e.map.tilesets
         THEN IF is_some(e.selected_tile)
                 /\ unwrap(e.selected_tile) >= e.map.tilesets[unwrap(e.selected_tileset)].tile_cnt
              THEN [e EXCEPT !.selected_tile = None]
              ELSE e
         ELSE [e EXCEPT !.selected_tileset = None, !.selected_tile = None]
    ELSE e

\* update_context that leaves the selected tool alone
update_context_tool_kept(e) == e

\* update_context, lines 327-333: the selected tool
update_context_tool(e) ==
    IF is_some(e.selected_tool)
       /\ ~Tool_is_available(unwrap(e.selected_tool), e.map, get_context(e))
    THEN [e EXCEPT !.selected_tool = None]
    ELSE e

update_context(e) ==
    LET e1 == update_context_kind(update_context_layer(e))
    IN IF e1.panicked THEN e1 ELSE update_context_tool(update_context_tileset(e1))

clear_context(e) ==
    [e EXCEPT !.selected_tool = None, !.selected_layer = None, !.selected_tileset = None,
              !.selected_tile = None, !.selected_object = None]

\* select_tileset(tileset_id, tile_id)
select_tileset(e, tileset_id, tile_id) ==
    IF tileset_id \in DOMAIN e.map.tilesets
    THEN LET tileset == e.map.tilesets[tileset_id]
         IN IF is_some(tile_id) /\ unwrap(tile_id) < tileset.first_tile_id + tileset.tile_cnt
            THEN [e EXCEPT !.selected_tileset = Some(tileset_id), !.selected_tile = tile_id]
            ELSE [e EXCEPT !.selected_tileset = Some(tileset_id),
                           !.selected_tile = Some(tileset.first_tile_id)]
    ELSE e

(***************************************************************************)
(* apply_action: the arms of the match.  Each gives the editor as changed  *)
(* and res, the Result of the history operation (Ok for the others).       *)
(***************************************************************************)
Res(e, ok) == [e |-> e, ok |-> ok]

WithHistory(e, r) == Res([e EXCEPT !.history = r.history, !.map = r.map], r.ok)

\* Undo that steps the cursor back and leaves the map as it is
apply_Undo_keeps_map(e) ==
    LET r == EditorHistory_undo(e.history, e.map)
    IN Res([e EXCEPT !.history = r.history], r.ok)

\* EditorAction::Undo
apply_Undo(e) == WithHistory(e, EditorHistory_undo(e.history, e.map))

\* Redo that steps the cursor forward and leaves the map as it is
apply_Redo_keeps_map(e) ==
    LET r == EditorHistory_redo(e.history, e.map)
    IN Res([e EXCEPT !.history = r.history], r.ok)

\* EditorAction::Redo
apply_Redo(e) == WithHistory(e, EditorHistory_redo(e.history, e.map))

\* an UndoableAction applied to the map directly, past the history
apply_Undoable_direct(e, a) ==
    LET r == UndoableAction_apply(a, e.map)
    IN IF r.ok THEN Res([e EXCEPT !.map = r.map], TRUE) ELSE Res(e, FALSE)

\* the arms that build an UndoableAction and hand it to history.apply
apply_Undoable(e, a) == WithHistory(e, EditorHistory_apply(e.history, a, e.map))

\* EditorAction::SelectTool(id)
apply_SelectTool(e, a) == Res([e EXCEPT !.selected_tool = a.id], TRUE)

\* EditorAction::SelectTile { id, tileset_id }
apply_SelectTile(e, a) == Res(select_tileset(e, a.tileset_id, Some(a.id)), TRUE)

\* EditorAction::SelectTileset(id)
apply_SelectTileset(e, a) == Res(select_tileset(e, a.id, None), TRUE)

\* EditorAction::SelectLayer(id)
apply_SelectLayer(e, a) ==
    IF a.id \in DOMAIN e.map.layers
    THEN Res([e EXCEPT !.selected_layer = Some(a.id)], TRUE)
    ELSE Res(e, TRUE)

\* EditorAction::SelectObject { index, layer_id }
apply_SelectObject(e, a) ==
    Res([e EXCEPT !.selected_layer = Some(a.layer_id), !.selected_object = Some(a.index)], TRUE)

\* the Open...Window arms: gui.add_window
apply_OpenWindow(e, a) == Res([e EXCEPT !.windows = @ \cup {a.window}], TRUE)

\* EditorAction::CloseWindow(id): gui.remove_window_id
apply_CloseWindow(e, a) == Res([e EXCEPT !.windows = @ \ {a.window}], TRUE)

\* EditorAction::CreateMap: create_map either fails (logged) or gives the new map
apply_CreateMap(e, a) ==
    IF a.io_ok
    THEN Res(clear_context([e EXCEPT !.map = NewMap, !.name = "map",
                                     !.path = << "maps", "map" >>,
                                     !.is_user_map = a.is_user_map,
                                     !.is_tiled_map = FALSE,
                                     !.history = EditorHistory_clear(@)]), TRUE)
    ELSE Res(e, TRUE)

\* OpenMap that replaces the map and the selection and leaves the history
apply_OpenMap_keeps_history(e, a) ==
    Res(clear_context([e EXCEPT !.map = a.map, !.name = "map",
                                !.path = << "maps", "map" >>,
                                !.is_user_map = a.is_user_map,
                                !.is_tiled_map = FALSE]), TRUE)

\* EditorAction::OpenMap(index): get_map(index) gives a.map
apply_OpenMap(e, a) ==
    Res(clear_context([e EXCEPT !.map = a.map, !.name = "map",
                                !.path = << "maps", "map" >>,
                                !.is_user_map = a.is_user_map,
                                !.is_tiled_map = FALSE,
                                !.history = EditorHistory_clear(@)]), TRUE)

\* lines 608-620: the copy of the resource that SaveMap hands to save_map, its path
\* in the directory of the exports
SaveMap_resource(e, a) ==
    IF is_some(a.name)
    THEN [e EXCEPT !.name = unwrap(a.name), !.path = << "exports", unwrap(a.name) >>,
                   !.is_user_map = TRUE, !.is_tiled_map = FALSE]
    ELSE [e EXCEPT !.is_user_map = TRUE, !.is_tiled_map = FALSE]

\* SaveMap that forgets the history once the map is written
apply_SaveMap_clears_history(e, a) ==
    IF a.io_ok
    THEN Res([SaveMap_resource(e, a) EXCEPT !.history = EditorHistory_clear(@)], TRUE)
    ELSE Res(e, TRUE)

\* SaveMap that keeps the changed copy of the resource whether or not it was written
apply_SaveMap_keeps_copy(e, a) == Res(SaveMap_resource(e, a), TRUE)

\* EditorAction::SaveMap(name): the resource is replaced only if save_map succeeds
apply_SaveMap(e, a) ==
    IF a.io_ok THEN Res(SaveMap_resource(e, a), TRUE) ELSE Res(e, TRUE)

\* EditorAction::DeleteMap(index): delete_map(index).unwrap()
apply_DeleteMap(e, a) == IF a.io_ok THEN Res(e, TRUE) ELSE Res(Panic(e), TRUE)

\* ExitToMainMenu and QuitToDesktop raise an event and change nothing here
apply_Event(e, a) == Res(e, TRUE)

WindowTypes ==
    {"OpenBackgroundPropertiesWindow", "OpenCreateLayerWindow", "OpenCreateTilesetWindow",
     "OpenTilesetPropertiesWindow", "OpenCreateObjectWindow", "OpenObjectPropertiesWindow",
     "OpenTilePropertiesWindow", "OpenImportWindow", "OpenCreateMapWindow",
     "OpenLoadMapWindow", "OpenSaveMapWindow"}

\* the match of apply_action for one action that is not a Batch
apply_arm(e, a) ==
    CASE a.type = "Undo" -> apply_Undo(e)
      [] a.type = "Redo" -> apply_Redo(e)
      [] a.type \in UndoableTypes -> apply_Undoable(e, a)
      [] a.type = "SelectTool" -> apply_SelectTool(e, a)
      [] a.type = "SelectTile" -> apply_SelectTile(e, a)
      [] a.type = "SelectTileset" -> apply_SelectTileset(e, a)
      [] a.type = "SelectLayer" -> apply_SelectLayer(e, a)
      [] a.type = "SelectObject" -> apply_SelectObject(e, a)
      [] a.type \in WindowTypes -> apply_OpenWindow(e, a)
      [] a.type = "CloseWindow" -> apply_CloseWindow(e, a)
      [] a.type = "CreateMap" -> apply_CreateMap(e, a)
      [] a.type = "OpenMap" -> apply_OpenMap(e, a)
      [] a.type = "SaveMap" -> apply_SaveMap(e, a)
      [] a.type = "DeleteMap" -> apply_DeleteMap(e, a)
      [] a.type \in {"ExitToMainMenu", "QuitToDesktop"} -> apply_Event(e, a)

\* a tail that ignores the error and goes on with update_context
apply_tail_ignores_errors(r) ==
    IF r.e.panicked THEN r.e ELSE update_context(r.e)

\* the tail of apply_action, lines 642-646: panic on Err, else update_context
apply_tail(r) ==
    IF r.e.panicked THEN r.e
    ELSE IF ~r.ok THEN Panic(r.e)
    ELSE update_context(r.e)

\* Bookkeeping for the properties, not part of the program: trail[k + 1] is the map
\* as it was when the cursor was last at k by way of an apply (trail[1]: the map the
\* history started from); low is the least cursor value since the last apply.
Traced(e, a, e1) ==
    IF e1.panicked THEN e1
    ELSE IF a.type \in UndoableTypes
    THEN [e1 EXCEPT !.trail = Append(SubSeq(e.trail, 1, e.history.cursor + 1), e1.map),
                    !.low = e1.history.cursor]
    ELSE IF a.type = "OpenMap" \/ (a.type = "CreateMap" /\ a.io_ok)
    THEN [e1 EXCEPT !.trail = << e1.map >>, !.low = 0]
    ELSE [e1 EXCEPT !.low = Min(@, e1.history.cursor)]

RECURSIVE apply_action(_, _)
RECURSIVE apply_batch(_, _)
RECURSIVE apply_batch_backwards(_, _)

\* a batch applied from its last sub-action to its first
apply_batch_backwards(e, actions) ==
    IF actions = << >> \/ e.panicked THEN e
    ELSE apply_action(apply_batch_backwards(e, Tail(actions)), Head(actions))

\* EditorAction::Batch(actions): for action in actions { self.apply_action(action) }
apply_batch(e, actions) ==
    IF actions = << >> \/ e.panicked THEN e
    ELSE apply_batch(apply_action(e, Head(actions)), Tail(actions))

\* Editor::apply_action; a panicked process does nothing more
apply_action(e, a) ==
    IF e.panicked THEN e
    ELSE IF a.type = "Batch" THEN apply_tail(Res(apply_batch(e, a.actions), TRUE))
    ELSE Traced(e, a, apply_tail(apply_arm(e, a)))

(***************************************************************************)
(* Node::update: one frame of input.  The frame input `in` holds what the  *)
(* polled collaborators answer in this frame:                              *)
(*   action, undo, redo, delete, save, save_as, load : the EditorInput     *)
(*   moved        : cursor_position differs from previous_cursor_position  *)
(*   over_gui     : gui.contains(cursor_position)                          *)
(*   dt_expires   : the frame time takes double_click_timer to its limit   *)
(*   io_ok        : save_map succeeds                                      *)
(*   tool_update, tool_action : what tool.update / tool.get_action return  *)
(*   hit_selected : the rectangle of the selected element holds the cursor *)
(*   hits         : the objects, spawn points and tiles under the cursor   *)
(*   layer_order  : the order in which layers.keys() yields the layer ids  *)
(*   position     : the clamped (and snapped) world position of the cursor *)
(***************************************************************************)
Tool_is_continuous(tool_id) == tool_id \in {"TilePlacementTool", "EraserTool"}

\* lines 676-684: save
update_save_key(e, in) ==
    IF ~e.panicked /\ in.save
    THEN apply_action(e, IF e.is_user_map
                         THEN [type |-> "SaveMap", name |-> None, io_ok |-> in.io_ok]
                         ELSE [type |-> "OpenSaveMapWindow", window |-> "SaveMapWindow"])
    ELSE e

\* lines 686-689: save as
update_save_as_key(e, in) ==
    IF ~e.panicked /\ in.save_as
    THEN apply_action(e, [type |-> "OpenSaveMapWindow", window |-> "SaveMapWindow"])
    ELSE e

\* lines 691-694: load
update_load_key(e, in) ==
    IF ~e.panicked /\ in.load
    THEN apply_action(e, [type |-> "OpenLoadMapWindow", window |-> "LoadMapWindow"])
    ELSE e

\* lines 676-694: save, save as, load
update_save(e, in) == update_load_key(update_save_as_key(update_save_key(e, in), in), in)

\* lines 696-699: the double click timer runs while the button is up
update_timer(e, in) ==
    IF e.panicked THEN e ELSE
    IF ~in.action /\ e.double_click_armed
    THEN [e EXCEPT !.double_click_armed = ~in.dt_expires]
    ELSE e

\* lines 743-747
update_undo_redo(e, in) ==
    IF e.panicked THEN e ELSE
    IF in.undo THEN apply_action(e, [type |-> "Undo"])
    ELSE IF in.redo THEN apply_action(e, [type |-> "Redo"])
    ELSE e

\* lines 764-776: tool.update
update_tool(e, in) ==
    IF e.panicked THEN e ELSE
    IF is_some(e.selected_tool) /\ is_some(in.tool_update)
    THEN apply_action(e, unwrap(in.tool_update))
    ELSE e

\* a tool triggered in every frame in which the button is down
update_tool_action_every_frame(e, in, previous_action) ==
    IF is_some(in.tool_action)
    THEN apply_action(e, unwrap(in.tool_action))
    ELSE e

\* lines 785-793: the selected tool is triggered
update_tool_action(e, in, previous_action) ==
    IF (~previous_action \/ Tool_is_continuous(unwrap(e.selected_tool)))
       /\ is_some(in.tool_action)
    THEN apply_action(e, unwrap(in.tool_action))
    ELSE e

\* lines 795-844: a drag begins on the selected object or spawn point
update_drag_begin(e, in) ==
    IF ~in.moved /\ is_none(e.dragged_object)
    THEN IF is_some(e.selected_object)
         THEN IF is_none(e.selected_layer) THEN Panic(e)
              ELSE IF unwrap(e.selected_layer) \notin DOMAIN e.map.layers THEN Panic(e)
              ELSE LET index == unwrap(e.selected_object)
                       layer_id == unwrap(e.selected_layer)
                       objects == e.map.layers[layer_id].objects
                   IN IF index >= Len(objects) THEN Panic(e)
                      ELSE IF in.hit_selected
                           THEN [e EXCEPT !.dragged_object =
                                    Some([type |-> "MapObject", id |-> objects[index + 1].id,
                                          kind |-> objects[index + 1].kind,
                                          index |-> index, layer_id |-> layer_id])]
                           ELSE e
         ELSE IF is_some(e.selected_spawn_point)
              THEN IF unwrap(e.selected_spawn_point) >= Len(e.map.spawn_points) THEN Panic(e)
                   ELSE IF in.hit_selected
                        THEN [e EXCEPT !.dragged_object =
                                 Some([type |-> "SpawnPoint",
                                       index |-> unwrap(e.selected_spawn_point)])]
                        ELSE e
              ELSE e
    ELSE e

\* lines 858-879: the layer ids, the selected layer moved to the front
click_layer_ids(e, in) ==
    LET ids == SelectSeq(in.layer_order, LAMBDA l : l \in DOMAIN e.map.layers)
    IN IF is_some(e.selected_layer) /\ Contains(ids, unwrap(e.selected_layer))
       THEN << unwrap(e.selected_layer) >>
            \o SelectSeq(ids, LAMBDA l : l # unwrap(e.selected_layer))
       ELSE ids

\* lines 884-902: the first object under the cursor, by layer then by index
click_object(e, in, layer_ids) ==
    LET found == {<< li, i >> \in (1..Len(layer_ids)) \X (0..(MaxObjects + 1)) :
                     /\ e.map.layers[layer_ids[li]].kind = "ObjectLayer"
                     /\ i < Len(e.map.layers[layer_ids[li]].objects)
                     /\ [kind |-> "object", layer_id |-> layer_ids[li], index |-> i] \in in.hits}
    IN IF found = {} THEN None
       ELSE LET f == CHOOSE f \in found : \A g \in found :
                        f[1] < g[1] \/ (f[1] = g[1] /\ f[2] <= g[2])
            IN Some([layer_id |-> layer_ids[f[1]], index |-> f[2]])

\* lines 936-966: the first spawn point under the cursor
click_spawn_point(e, in) ==
    LET found == {i \in 0..(Len(e.map.spawn_points) - 1) :
                     [kind |-> "spawn_point", index |-> i] \in in.hits}
    IN IF found = {} THEN None ELSE Some(CHOOSE i \in found : \A j \in found : i <= j)

\* lines 971-995: the first tile under the cursor, by layer then by index
click_tile(e, in, layer_ids) ==
    LET found == {<< li, c >> \in (1..Len(layer_ids)) \X Coords :
                     /\ e.map.layers[layer_ids[li]].kind = "TileLayer"
                     /\ is_some(e.map.layers[layer_ids[li]].tiles[c])
                     /\ [kind |-> "tile", layer_id |-> layer_ids[li], coords |-> c] \in in.hits}
    IN IF found = {} THEN None
       ELSE LET f == CHOOSE f \in found : \A g \in found :
                        f[1] < g[1] \/ (f[1] = g[1] /\ to_index(f[2]) <= to_index(g[2]))
            IN Some([layer_id |-> layer_ids[f[1]], index |-> to_index(f[2])])

\* the outcome of one branch of the click: the editor and whether it selected
Sel(e, selecting) == [e |-> e, selecting |-> selecting]

\* lines 904-934: an object is under the cursor
click_on_object(e, hit, is_double_click) ==
    IF e.selected_object = Some(hit.index)
    THEN IF is_double_click
         THEN Sel(apply_action(e, [type |-> "OpenObjectPropertiesWindow",
                                   window |-> "ObjectPropertiesWindow"]), FALSE)
         ELSE Sel([e EXCEPT !.selected_object = None], FALSE)
    ELSE Sel(apply_action(e, [type |-> "SelectObject", index |-> hit.index,
                              layer_id |-> hit.layer_id]), TRUE)

\* lines 948-965: a spawn point is under the cursor
click_on_spawn_point(e, i) ==
    IF e.selected_spawn_point = Some(i)
    THEN Sel([e EXCEPT !.selected_spawn_point = None], TRUE)
    ELSE Sel([e EXCEPT !.selected_spawn_point = Some(i)], TRUE)

\* lines 997-1027: a tile is under the cursor
click_on_tile(e, hit, is_double_click) ==
    IF e.selected_map_tile_index = Some(hit.index)
    THEN IF is_none(e.selected_layer) THEN Sel(Panic(e), FALSE)
         ELSE IF hit.layer_id = unwrap(e.selected_layer)
              THEN IF is_double_click
                   THEN Sel(apply_action(e, [type |-> "OpenTilePropertiesWindow",
                                             window |-> "TilePropertiesWindow"]), FALSE)
                   ELSE Sel([e EXCEPT !.selected_map_tile_index = None], FALSE)
              ELSE Sel([e EXCEPT !.selected_map_tile_index = Some(hit.index),
                                 !.selected_layer = Some(hit.layer_id)], TRUE)
    ELSE Sel([e EXCEPT !.selected_map_tile_index = Some(hit.index),
                       !.selected_layer = Some(hit.layer_id)], TRUE)

\* lines 904-1027: the element under the cursor is clicked, an object before a spawn
\* point before a tile
click_on(e, object, spawn_point, tile, is_double_click) ==
    IF is_some(object) THEN click_on_object(e, unwrap(object), is_double_click)
    ELSE IF is_some(spawn_point) THEN click_on_spawn_point(e, unwrap(spawn_point))
    ELSE IF is_some(tile) THEN click_on_tile(e, unwrap(tile), is_double_click)
    ELSE Sel(e, FALSE)

\* lines 1030-1034: a click that selects nothing clears the selection
click_end(r) ==
    IF r.e.panicked \/ r.selecting THEN r.e
    ELSE [r.e EXCEPT !.selected_map_tile_index = None, !.selected_object = None,
                     !.selected_spawn_point = None]

\* lines 846-856: the double click timer at a click
click_timer(e) == [e EXCEPT !.double_click_armed = ~e.double_click_armed]

\* lines 846-1036: the button went down over the map with no tool selected
update_click(e, in) ==
    click_end(click_on(click_timer(e),
                       click_object(e, in, click_layer_ids(e, in)),
                       click_spawn_point(e, in),
                       click_tile(e, in, click_layer_ids(e, in)),
                       e.double_click_armed))

\* lines 1038-1087: the button is up and a drag is in progress: it is committed
update_drag_commit(e, in) ==
    LET d == unwrap(e.dragged_object)
        e1 == [e EXCEPT !.dragged_object = None]
    IN IF d.type = "MapObject"
       THEN apply_action(e1, [type |-> "UpdateObject", id |-> d.id, kind |-> d.kind,
                              index |-> d.index, layer_id |-> d.layer_id,
                              position |-> in.position])
       ELSE apply_action(e1, [type |-> "MoveSpawnPoint", index |-> d.index,
                              position |-> in.position])

\* update_action committing the drag in every frame, the button held or not
update_action_commits_while_held(e, in, previous_action) ==
    IF e.panicked THEN e ELSE
    IF is_some(e.dragged_object) THEN update_drag_commit(e, in)
    ELSE IF in.action /\ ~in.over_gui
    THEN IF is_some(e.selected_tool) THEN update_tool_action(e, in, previous_action)
         ELSE IF previous_action THEN update_drag_begin(e, in)
         ELSE update_click(e, in)
    ELSE e

\* lines 778-1087
update_action(e, in, previous_action) ==
    IF e.panicked THEN e ELSE
    IF in.action
    THEN IF ~in.over_gui
         THEN IF is_some(e.selected_tool) THEN update_tool_action(e, in, previous_action)
              ELSE IF previous_action THEN update_drag_begin(e, in)
              ELSE update_click(e, in)
         ELSE e
    ELSE IF is_some(e.dragged_object) THEN update_drag_commit(e, in)
    ELSE e

\* lines 1089-1113: the delete key
update_delete(e, in) ==
    IF e.panicked THEN e ELSE
    IF ~in.delete THEN e
    ELSE IF is_some(e.selected_object)
    THEN IF is_none(e.selected_layer) THEN Panic(e)
         ELSE apply_action([e EXCEPT !.selected_object = None],
                           [type |-> "DeleteObject", index |-> unwrap(e.selected_object),
                            layer_id |-> unwrap(e.selected_layer)])
    ELSE IF is_some(e.selected_map_tile_index)
    THEN IF is_none(e.selected_layer) THEN Panic(e)
         ELSE apply_action([e EXCEPT !.selected_map_tile_index = None],
                           [type |-> "RemoveTile",
                            coords |-> IndexCoords(unwrap(e.selected_map_tile_index)),
                            layer_id |-> unwrap(e.selected_layer)])
    ELSE IF is_some(e.selected_spawn_point)
    THEN apply_action([e EXCEPT !.selected_spawn_point = None],
                      [type |-> "DeleteSpawnPoint", index |-> unwrap(e.selected_spawn_point)])
    ELSE e

\* lines 659-660: the input of the frame is collected
update_input(e, in) == IF e.panicked THEN e ELSE [e EXCEPT !.input_action = in.action]

\* Node::update: its steps in the order of the code; a step that finds the editor
\* panicked does nothing
update(e, in) ==
    update_delete(
        update_action(
            update_tool(
                update_undo_redo(
                    update_timer(
                        update_save(update_input(update_context(e), in), in),
                        in),
                    in),
                in),
            in, e.input_action),
        in)

\* Node::draw, lines 1552-1570: the action of the tool cursor or of the gui is applied
draw(e, res) == IF is_some(res) THEN apply_action(e, unwrap(res)) ELSE e

(***************************************************************************)
(* Particle emitters (core/src/particles.rs).  Times are whole ticks.      *)
(***************************************************************************)
MaxDelay == 2
MaxInterval == 2
MaxEmissions == 2
MaxDt == 2
MaxActivations == 2

\* the frame times
DeltaTimes == 0..MaxDt

\* the time within which an emitter with a number of emissions is done
MaxTime == (MaxDelay + MaxDt) + MaxEmissions * (MaxInterval + MaxDt)

EmitterMetadata ==
    [delay : 0..MaxDelay, interval : 0..MaxInterval,
     emissions : {None} \cup {Some(n) : n \in 0..MaxEmissions},
     should_autostart : BOOLEAN]

\* ParticleEmitterMetadata::default()
DefaultEmitterMetadata ==
    [delay |-> 0, interval |-> 0, emissions |-> None, should_autostart |-> FALSE]

\* ParticleEmitter::new(meta)
ParticleEmitter_new(meta) ==
    [delay |-> meta.delay,
     interval |-> meta.interval,
     emissions |-> meta.emissions,
     emission_cnt |-> 0,
     delay_timer |-> 0,
     interval_timer |-> meta.interval,
     is_active |-> meta.should_autostart]

\* ParticleEmitter::activate
ParticleEmitter_activate(em) ==
    [em EXCEPT !.delay_timer = 0, !.interval_timer = em.interval, !.emission_cnt = 0,
               !.is_active = TRUE]

\* the emitter after an update, and whether cache.spawn was called
Updated(em, spawn) == [emitter |-> em, spawn |-> spawn]

\* an update that goes on emitting once the number of emissions is reached
update_one_particle_emitter_goes_on(delta_time, em) ==
    IF em.is_active
    THEN LET delay_timer == em.delay_timer + delta_time
             interval_timer == IF delay_timer >= em.delay
                               THEN em.interval_timer + delta_time
                               ELSE em.interval_timer
         IN IF delay_timer >= em.delay /\ interval_timer >= em.interval
            THEN Updated([em EXCEPT !.delay_timer = delay_timer, !.interval_timer = 0,
                                    !.emission_cnt = IF is_some(em.emissions)
                                                     THEN @ + 1 ELSE @],
                         TRUE)
            ELSE Updated([em EXCEPT !.delay_timer = delay_timer,
                                    !.interval_timer = interval_timer], FALSE)
    ELSE Updated(em, FALSE)

\* update_one_particle_emitter: position and rotation only say where the particles
\* are spawned; emission_cnt (u32) stays far below its limit in the time of MaxTime
update_one_particle_emitter(delta_time, em) ==
    IF em.is_active
    THEN LET delay_timer == em.delay_timer + delta_time
             interval_timer == IF delay_timer >= em.delay
                               THEN em.interval_timer + delta_time
                               ELSE em.interval_timer
         IN IF delay_timer >= em.delay /\ interval_timer >= em.interval
            THEN LET emission_cnt == IF is_some(em.emissions)
                                     THEN em.emission_cnt + 1
                                     ELSE em.emission_cnt
                 IN Updated([em EXCEPT
                                !.delay_timer = delay_timer,
                                !.interval_timer = 0,
                                !.emission_cnt = emission_cnt,
                                !.is_active = ~(/\ is_some(em.emissions)
                                                /\ unwrap(em.emissions) > 0
                                                /\ emission_cnt >= unwrap(em.emissions))],
                            TRUE)
            ELSE Updated([em EXCEPT !.delay_timer = delay_timer,
                                    !.interval_timer = interval_timer], FALSE)
    ELSE Updated(em, FALSE)

\* Bookkeeping for the properties, not part of the program: the calls of activate,
\* and since the last of them (or since new) the calls of cache.spawn, the time that
\* went by, the time of the latest spawn and the time between it and the one before.
NothingEmitted ==
    [activations |-> 0, spawned |-> 0, elapsed |-> 0, last_at |-> None, last_gap |-> None]

Emitted(o, delta_time, spawn) ==
    IF spawn
    THEN [o EXCEPT !.spawned = @ + 1, !.elapsed = @ + delta_time,
                   !.last_at = Some(o.elapsed + delta_time),
                   !.last_gap = IF is_some(o.last_at)
                                THEN Some(o.elapsed + delta_time - unwrap(o.last_at))
                                ELSE None]
    ELSE [o EXCEPT !.elapsed = @ + delta_time]

(***************************************************************************)
(* The state: the Editor node, and the last callback that ran with what    *)
(* it found (bookkeeping for the properties); a particle emitter, and what *)
(* it emitted (bookkeeping for the properties).                            *)
(***************************************************************************)
VARIABLES editor, last, emitter, emitted

vars == << editor, last, emitter, emitted >>

\* the editor runs with no emitter at work
NoEmitter ==
    /\ emitter = ParticleEmitter_new(DefaultEmitterMetadata)
    /\ emitted = NothingEmitted

\* what is remembered of a drag (see Framed): none is under way
NoDrag == [phase |-> "none", what |-> "", base |-> 0, changed |-> FALSE, moved |-> FALSE]

\* what is remembered of the callback that ran last with action a on editor e:
\*   type      the type of a when it is Undo, Redo, or changes the map;
\*             "SelectLayer" when a selects an object layer while a tileset and a
\*             tile are selected; "SelectTool" when a selects a tool that is not
\*             available; "OpenMap", "CreateMap" (created) and "CreateMapFailed" when
\*             a finds a history that is not empty; "Batch" when a is a batch that
\*             begins by closing a window that is open; "HistoryError" when
\*             the history reports an error for a; "other" otherwise
\*   tail      the length of the redo tail a map-changing action found
\*   drag      a draw ends the drag that is followed, if any
Remembered(e, a) ==
    [type |-> IF a.type \in UndoableTypes \cup {"Undo", "Redo"} /\ ~apply_arm(e, a).ok
              THEN "HistoryError"
              ELSE IF a.type \in UndoableTypes \cup {"Undo", "Redo", "new"} THEN a.type
              ELSE IF /\ a.type = "SelectLayer"
                      /\ IsLayerOfKind(e.map, a.id, "ObjectLayer")
                      /\ is_some(e.selected_tileset) /\ is_some(e.selected_tile)
                   THEN "SelectLayer"
              ELSE IF /\ a.type = "SelectTool" /\ is_some(a.id)
                      /\ ~Tool_is_available(unwrap(a.id), e.map, get_context(e))
                   THEN "SelectTool"
              ELSE IF a.type = "OpenMap" /\ e.history.undo_stack # << >> THEN "OpenMap"
              ELSE IF a.type = "CreateMap" /\ e.history.undo_stack # << >>
                   THEN IF a.io_ok THEN "CreateMap" ELSE "CreateMapFailed"
              ELSE IF /\ a.type = "Batch" /\ Head(a.actions).type = "CloseWindow"
                      /\ Head(a.actions).window \in e.windows
                   THEN "Batch"
              ELSE "other",
     tail |-> IF a.type \in UndoableTypes
              THEN Len(e.history.undo_stack) - e.history.cursor
              ELSE 0,
     drag |-> NoDrag]

\* the maps an editor is opened on: a new map, and a map with a tile layer holding
\* one tile, an object layer holding one object, one tileset and one spawn point
SampleMap ==
    [background_color |-> "black", background_layers |-> << >>,
     layers |-> [l \in {"bg", "objects"} |->
                   IF l = "bg"
                   THEN [MapLayer("bg", "TileLayer", FALSE) EXCEPT
                           !.tiles[<< 0, 0 >>] = Some(MapTile(0, "ts1"))]
                   ELSE [MapLayer("objects", "ObjectLayer", FALSE) EXCEPT
                           !.objects = << MapObject("sproinger", "Environment", 0) >>]],
     draw_order |-> << "bg", "objects" >>,
     tilesets |-> [t \in {"ts1"} |-> MapTileset(NewMap, "ts1", "tex1")],
     spawn_points |-> << 0 >>]

InitMaps == {NewMap, SampleMap}

Init ==
    /\ editor \in {Editor_new(m) : m \in InitMaps}
    /\ last = Remembered(editor, [type |-> "new"])
    /\ NoEmitter

\* the editor stays within the bounds of the model
Fits(e) ==
    /\ Len(e.history.undo_stack) <= MaxApplies
    /\ Len(e.map.spawn_points) <= MaxSpawnPoints
    /\ \A l \in DOMAIN e.map.layers : Len(e.map.layers[l].objects) <= MaxObjects

(***************************************************************************)
(* The actions the gui hands to draw.                                      *)
(***************************************************************************)
InObjectKinds == {"Item", "Decoration"}
BackgroundLayerLists == {<< >>, << [texture_id |-> "tex1", depth |-> 0] >>}
ImportTilesetLists ==
    {<< >>,
     << [id |-> "ts2", texture_id |-> "tex2", first_tile_id |-> 0, tile_cnt |-> 1,
         autotile_mask |-> FALSE] >>}

LayerActions ==
    [type : {"CreateLayer"}, id : LayerIds, kind : LayerKinds, has_collision : {FALSE},
     index : Indices]
    \cup [type : {"DeleteLayer"}, id : LayerIds]
    \cup [type : {"UpdateLayer"}, id : LayerIds, is_visible : BOOLEAN]
    \cup [type : {"SetLayerDrawOrderIndex"}, id : LayerIds, index : Indices]

TilesetActions ==
    [type : {"CreateTileset"}, id : TilesetIds, texture_id : TextureIds]
    \cup [type : {"DeleteTileset"}, id : TilesetIds]
    \cup [type : {"UpdateTileset"}, id : TilesetIds, texture_id : TextureIds,
          autotile_mask : {TRUE}]

ObjectActions ==
    [type : {"CreateObject"}, id : ObjectIds, kind : InObjectKinds, position : Pos,
     layer_id : LayerIds]
    \cup [type : {"DeleteObject"}, index : 0..(MaxObjects - 1), layer_id : LayerIds]
    \cup [type : {"UpdateObject"}, layer_id : LayerIds, index : 0..(MaxObjects - 1),
          id : ObjectIds, kind : {"Item"}, position : Pos]

SpawnPointActions ==
    [type : {"CreateSpawnPoint"}, position : Pos]
    \cup [type : {"DeleteSpawnPoint"}, index : 0..(MaxSpawnPoints - 1)]
    \cup [type : {"MoveSpawnPoint"}, index : 0..(MaxSpawnPoints - 1), position : Pos]

TileActions ==
    [type : {"PlaceTile"}, id : 0..1, layer_id : LayerIds, tileset_id : TilesetIds,
     coords : Coords]
    \cup [type : {"RemoveTile"}, layer_id : LayerIds, coords : Coords]
    \cup [type : {"UpdateTileAttributes"}, index : 0..(GridWidth * GridHeight - 1),
          layer_id : LayerIds, attributes : {"jumpthrough"}]

BackgroundActions ==
    [type : {"UpdateBackground"}, color : Colors, layers : BackgroundLayerLists]
    \cup [type : {"Import"}, tilesets : ImportTilesetLists,
          background_color : {None, Some("white")}, background_layers : BackgroundLayerLists]

UndoableActions ==
    LayerActions \cup TilesetActions \cup ObjectActions \cup SpawnPointActions
    \cup TileActions \cup BackgroundActions

\* the process after a panic: there is no editor any more
Crashed == Panic(Editor_new(NewMap))

\* a callback ran: the editor it leaves, and what is remembered of it
Ran(e1, a) ==
    /\ Fits(e1)
    /\ editor' = IF e1.panicked THEN Crashed ELSE e1
    /\ last' = Remembered(editor, a)
    /\ UNCHANGED << emitter, emitted >>

\* draw, the gui returning an action that changes the map and that applies
DrawUndoable ==
    /\ ~editor.panicked
    /\ editor.history.cursor < MaxApplies
    /\ \E a \in UndoableActions :
          LET e1 == draw(editor, Some(a))
          IN ~e1.panicked /\ Ran(e1, a)

\* draw, the gui returning Undo
DrawUndo ==
    /\ ~editor.panicked
    /\ Ran(draw(editor, Some([type |-> "Undo"])), [type |-> "Undo"])

\* draw, the gui returning Redo
DrawRedo ==
    /\ ~editor.panicked
    /\ Ran(draw(editor, Some([type |-> "Redo"])), [type |-> "Redo"])

NextHistory == DrawUndoable \/ DrawUndo \/ DrawRedo

\* the editor driven by map-changing actions, Undo and Redo alone
SpecHistory == Init /\ [][NextHistory]_vars

(***************************************************************************)
(* Properties of the history.                                              *)
(***************************************************************************)
Stack == editor.history.undo_stack
Cursor == editor.history.cursor

\* C1: once every applied action A1..An has been undone (the cursor went down to 0)
\* and redone (the cursor is back at the end of the stack), the map equals the map
\* as it was right after An had been applied.
C1_UndoRedoRoundTrip ==
    (~editor.panicked /\ Stack # << >> /\ editor.low = 0 /\ Cursor = Len(Stack))
        => editor.map = editor.trail[Len(editor.trail)]

\* two actions were applied, both undone and both redone
C1_Witness ==
    /\ ~editor.panicked
    /\ Len(Stack) = 2 /\ Cursor = 2 /\ editor.low = 0
    /\ last.type = "Redo"
    /\ editor.trail[1] # editor.trail[2] /\ editor.trail[2] # editor.trail[3]

\* C2: after an Undo the map equals the map as it was before the undone action was
\* applied, whatever the variant of the action.
C2_UndoRestoresPreApply ==
    (~editor.panicked /\ last.type = "Undo" /\ Cursor < Len(Stack))
        => editor.map = editor.trail[Cursor + 1]

\* an action that changed the map was applied and undone at once
C2_Witness ==
    /\ ~editor.panicked
    /\ last.type = "Undo"
    /\ Cursor = Len(Stack) - 1 /\ editor.low = Cursor
    /\ editor.trail[Cursor + 2] # editor.trail[Cursor + 1]
    /\ editor.map = editor.trail[Cursor + 1]

\* C3: a newly applied action leaves no redo tail: the history is the entries that
\* were applied before it followed by the new one, and a Redo right after it changes
\* neither the map nor the history.
C3_RedoTailDiscard ==
    [][(last'.type \in UndoableTypes /\ ~editor'.panicked)
        => /\ editor'.history.cursor = Cursor + 1
           /\ Len(editor'.history.undo_stack) = Cursor + 1
           /\ SubSeq(editor'.history.undo_stack, 1, Cursor) = SubSeq(Stack, 1, Cursor)
           /\ editor'.history.undo_stack[Cursor + 1].type = last'.type
           /\ apply_Redo(editor').e = editor']_vars

\* an action was applied after two undos
C3_Witness ==
    /\ ~editor.panicked
    /\ last.type \in UndoableTypes
    /\ last.tail = 2
    /\ Cursor = 1 /\ Len(Stack) = 1

\* C4: draw_order holds exactly the keys of layers, each once.
C4_DrawOrderIsPermutation ==
    ~editor.panicked
        => /\ {editor.map.draw_order[i] : i \in 1..Len(editor.map.draw_order)}
                = DOMAIN editor.map.layers
           /\ Len(editor.map.draw_order) = Cardinality(DOMAIN editor.map.layers)

\* a layer was deleted and another moved in draw_order, then one of these was undone
C4_Witness ==
    /\ ~editor.panicked
    /\ Len(Stack) = 2
    /\ {Stack[1].type, Stack[2].type} = {"DeleteLayer", "CreateLayer"}
    /\ last.type = "Undo"
    /\ Len(editor.map.draw_order) = 2

(***************************************************************************)
(* The editor driven by every kind of EditorAction (no input frames).      *)
(***************************************************************************)
\* map-changing actions, some of which fail on some maps
EditActions ==
    [type : {"CreateLayer"}, id : LayerIds, kind : {"ObjectLayer"}, has_collision : {FALSE},
     index : {0}]
    \cup [type : {"DeleteLayer"}, id : LayerIds]
    \cup [type : {"CreateTileset"}, id : {"ts2"}, texture_id : {"tex2"}]
    \cup [type : {"DeleteTileset"}, id : TilesetIds]
    \cup [type : {"CreateObject"}, id : ObjectIds, kind : {"Item"}, position : {0},
          layer_id : {"objects"}]
    \cup [type : {"DeleteObject"}, index : {0}, layer_id : {"objects"}]

SelectActions ==
    [type : {"SelectTool"}, id : {None, Some("TilePlacementTool"), Some("ObjectPlacementTool")}]
    \cup [type : {"SelectLayer"}, id : LayerIds]
    \cup [type : {"SelectTileset"}, id : TilesetIds]
    \cup [type : {"SelectTile"}, id : TileIds, tileset_id : TilesetIds]
    \cup [type : {"SelectObject"}, index : 0..MaxObjects, layer_id : LayerIds]

WindowActions ==
    {[type |-> "OpenCreateLayerWindow", window |-> "CreateLayerWindow"],
     [type |-> "CloseWindow", window |-> "CreateLayerWindow"]}

MapActions ==
    [type : {"CreateMap"}, io_ok : BOOLEAN, is_user_map : {FALSE}]
    \cup [type : {"OpenMap"}, map : InitMaps, is_user_map : {FALSE}]
    \cup [type : {"SaveMap"}, name : {None}, io_ok : BOOLEAN]
    \cup [type : {"DeleteMap"}, io_ok : BOOLEAN]
    \cup {[type |-> "ExitToMainMenu"]}

\* a window button: close_action.then(x), and a batch within a batch
BatchActions ==
    {[type |-> "Batch", actions |-> << [type |-> "CloseWindow", window |-> "CreateLayerWindow"], x >>] :
        x \in {[type |-> "DeleteLayer", id |-> "objects"],
               [type |-> "SelectLayer", id |-> "objects"],
               [type |-> "Batch", actions |-> << [type |-> "Undo"], [type |-> "Redo"] >>]}}

\* draw, the gui returning an action that changes the map
DrawEdit ==
    /\ ~editor.panicked
    /\ editor.history.cursor < MaxApplies
    /\ \E a \in EditActions : Ran(draw(editor, Some(a)), a)

\* draw, the gui returning a selection
DrawSelect ==
    /\ ~editor.panicked
    /\ \E a \in SelectActions : Ran(draw(editor, Some(a)), a)

\* draw, the gui opening or closing a window
DrawWindow ==
    /\ ~editor.panicked
    /\ \E a \in WindowActions : Ran(draw(editor, Some(a)), a)

\* draw, the gui creating, opening, saving or deleting a map
DrawMap ==
    /\ ~editor.panicked
    /\ \E a \in MapActions : Ran(draw(editor, Some(a)), a)

\* draw, the gui returning a batch
DrawBatch ==
    /\ ~editor.panicked
    /\ \E a \in BatchActions : Ran(draw(editor, Some(a)), a)

Next == DrawEdit \/ DrawUndo \/ DrawRedo \/ DrawSelect \/ DrawWindow \/ DrawMap \/ DrawBatch

Spec == Init /\ [][Next]_vars

(***************************************************************************)
(* Properties of the selection.                                            *)
(***************************************************************************)
\* C5: update_context is idempotent: in the state a dispatch leaves, which is the
\* state right after update_context ran (the tail of apply_action), running
\* update_context again changes nothing.
C5_UpdateContextIdempotent ==
    (~editor.panicked /\ last.type # "new") => update_context(editor) = editor

\* C6: when DeleteLayer(L) is dispatched while L is the selected layer, the dispatch
\* returns with the first entry of draw_order selected, or with no layer selected if
\* draw_order is empty.
C6_DeleteSelectedLayerSelectsFirst ==
    \A id \in LayerIds :
        (~editor.panicked /\ editor.selected_layer = Some(id))
            => LET e1 == apply_action(editor, [type |-> "DeleteLayer", id |-> id])
               IN ~e1.panicked
                    => e1.selected_layer = IF e1.map.draw_order = << >> THEN None
                                           ELSE Some(e1.map.draw_order[1])

\* the tile selection of e is valid: the selected tileset is a tileset of the map and
\* the selected tile is one of its tile ids
TileSelectionValid(e) ==
    /\ is_some(e.selected_tileset) => unwrap(e.selected_tileset) \in DOMAIN e.map.tilesets
    /\ is_some(e.selected_tile)
          => /\ is_some(e.selected_tileset)
             /\ unwrap(e.selected_tileset) \in DOMAIN e.map.tilesets
             /\ LET s == e.map.tilesets[unwrap(e.selected_tileset)]
                IN /\ s.first_tile_id <= unwrap(e.selected_tile)
                   /\ unwrap(e.selected_tile) < s.first_tile_id + s.tile_cnt

\* the tileset a SelectTile or SelectTileset names
NamedTileset(a) == IF a.type = "SelectTile" THEN a.tileset_id ELSE a.id

TileSelections ==
    [type : {"SelectTileset"}, id : TilesetIds]
    \cup [type : {"SelectTile"}, id : TileIds, tileset_id : TilesetIds]

\* C8: after the dispatch of SelectTile{id, tileset_id} or SelectTileset(id) the tile
\* selection is valid, and a request naming an unknown tileset changes nothing.
C8_TileSelectionStaysValid ==
    \A a \in TileSelections :
        ~editor.panicked
            => LET e1 == apply_action(editor, a)
               IN ~e1.panicked
                    => /\ TileSelectionValid(e1)
                       /\ NamedTileset(a) \notin DOMAIN editor.map.tilesets
                             => get_context(e1) = get_context(editor)

\* the object selection of e is valid: an object is selected only in an existing
\* object layer that holds it
ObjectSelectionValid(e) ==
    is_some(e.selected_object)
        => /\ is_some(e.selected_layer)
           /\ IsLayerOfKind(e.map, unwrap(e.selected_layer), "ObjectLayer")
           /\ unwrap(e.selected_object) < Len(e.map.layers[unwrap(e.selected_layer)].objects)

ObjectSelections == [type : {"SelectObject"}, index : 0..MaxObjects, layer_id : LayerIds]

\* C9: after the dispatch of SelectObject{index, layer_id} the object selection is
\* valid; a SelectObject naming a missing layer, a tile layer or an index out of
\* range leaves no object selected.
C9_ObjectSelectionStaysValid ==
    \A a \in ObjectSelections :
        ~editor.panicked
            => LET e1 == apply_action(editor, a)
               IN ~e1.panicked
                    => /\ ObjectSelectionValid(e1)
                       /\ (\/ ~IsLayerOfKind(editor.map, a.layer_id, "ObjectLayer")
                           \/ a.index >= Len(editor.map.layers[a.layer_id].objects))
                             => is_none(e1.selected_object)

\* C10: after every dispatch that leaves a layer selected, an object layer goes with
\* no tileset and no tile selected, a tile layer with no object selected.
C10_SelectionFitsLayerKind ==
    (~editor.panicked /\ last.type # "new" /\ is_some(editor.selected_layer))
        => /\ unwrap(editor.selected_layer) \in DOMAIN editor.map.layers
           /\ IsLayerOfKind(editor.map, unwrap(editor.selected_layer), "ObjectLayer")
                 => is_none(editor.selected_tileset) /\ is_none(editor.selected_tile)
           /\ IsLayerOfKind(editor.map, unwrap(editor.selected_layer), "TileLayer")
                 => is_none(editor.selected_object)

\* SelectLayer(L) was dispatched for an object layer L while a tileset and a tile
\* were selected, and L is selected
C10_Witness ==
    /\ ~editor.panicked
    /\ last.type = "SelectLayer"
    /\ is_some(editor.selected_layer)
    /\ IsLayerOfKind(editor.map, unwrap(editor.selected_layer), "ObjectLayer")
    /\ is_none(editor.selected_tileset) /\ is_none(editor.selected_tile)

(***************************************************************************)
(* The editor driven by input frames (Node::update) and by the tool bar.   *)
(***************************************************************************)
\* no key is down in the frame
NoKeys(in) == ~(in.undo \/ in.redo \/ in.delete \/ in.save \/ in.save_as \/ in.load)

\* Bookkeeping for the properties, not part of the program: what is remembered of
\* the frame that ran last, with input in, from editor e to e1, l being what was
\* remembered before.  A drag is followed from the frame in which dragged_object is
\* set, over the frames in which the button is held and no key is down, to the
\* frame in which the button is up; a frame with a key down ends the following.
\*   phase    "dragging" while the drag is followed, "dropped" on its release frame
\*   what     the kind of the dragged element
\*   base     the history cursor when the drag began
\*   changed  the history changed in a frame of the drag before the release frame
\*   moved    the cursor moved in a frame of the drag
Framed(l, e, in, e1) ==
    [type |-> "frame",
     tail |-> 0,
     drag |->
        IF ~NoKeys(in) THEN NoDrag
        ELSE IF is_none(e.dragged_object)
        THEN IF ~e1.panicked /\ is_some(e1.dragged_object)
             THEN [phase |-> "dragging", what |-> unwrap(e1.dragged_object).type,
                   base |-> e.history.cursor, changed |-> e1.history # e.history,
                   moved |-> FALSE]
             ELSE NoDrag
        ELSE IF l.drag.phase # "dragging" THEN NoDrag
        ELSE IF in.action
        THEN [l.drag EXCEPT !.changed = @ \/ e1.panicked \/ e1.history # e.history,
                            !.moved = @ \/ in.moved]
        ELSE [l.drag EXCEPT !.phase = "dropped"]]

Hits ==
    {[kind |-> "object", layer_id |-> "objects", index |-> 0],
     [kind |-> "spawn_point", index |-> 0],
     [kind |-> "tile", layer_id |-> "bg", coords |-> << 0, 0 >>]}

HitSets == {{}} \cup {{h} : h \in Hits} \cup {Hits}

LayerOrders == {<< "bg", "objects" >>, << "objects", "bg" >>}

ToolActions ==
    {None, Some([type |-> "PlaceTile", id |-> 0, layer_id |-> "bg", tileset_id |-> "ts1",
                 coords |-> << 1, 0 >>])}

\* a frame in which nothing happens: the button is up, no key is down
QuietFrame ==
    [action |-> FALSE, undo |-> FALSE, redo |-> FALSE, delete |-> FALSE, save |-> FALSE,
     save_as |-> FALSE, load |-> FALSE, moved |-> FALSE, over_gui |-> FALSE,
     dt_expires |-> FALSE, io_ok |-> TRUE, tool_update |-> None, tool_action |-> None,
     hit_selected |-> FALSE, hits |-> {}, layer_order |-> << "bg", "objects" >>,
     position |-> 0]

\* the frames in which the button goes down
ClickFrames ==
    {[QuietFrame EXCEPT !.action = TRUE, !.over_gui = og, !.hits = h, !.layer_order = lo,
                        !.tool_action = ta] :
        og \in BOOLEAN, h \in HitSets, lo \in LayerOrders, ta \in ToolActions}

\* the frames in which the button is held down
HoldFrames ==
    {[QuietFrame EXCEPT !.action = TRUE, !.moved = mv, !.over_gui = og, !.hit_selected = hs,
                        !.tool_action = ta] :
        mv \in BOOLEAN, og \in BOOLEAN, hs \in BOOLEAN, ta \in ToolActions}

\* the frames in which the button is up
ReleaseFrames ==
    {[QuietFrame EXCEPT !.dt_expires = dx, !.position = p] : dx \in BOOLEAN, p \in Pos}

\* the frames in which the undo, the redo or the delete key is down
KeyFrames ==
    {[QuietFrame EXCEPT !.action = ac, !.undo = k = "undo", !.redo = k = "redo",
                        !.delete = k = "delete"] :
        ac \in BOOLEAN, k \in {"undo", "redo", "delete"}}

\* a frame ran: the editor it leaves, and what is remembered of it
RanFrameTo(e1, in) ==
    /\ Fits(e1) /\ Len(e1.history.undo_stack) <= MaxFrameApplies
    /\ editor' = IF e1.panicked THEN Crashed ELSE e1
    /\ last' = Framed(last, editor, in, e1)
    /\ UNCHANGED << emitter, emitted >>

RanFrame(in) == RanFrameTo(update(editor, in), in)

\* update, the button going down: a click on the map, or the selected tool triggered
UpdateClick ==
    /\ ~editor.panicked /\ ~editor.input_action
    /\ \E in \in ClickFrames : RanFrame(in)

\* update, the button held down
UpdateHold ==
    /\ ~editor.panicked /\ editor.input_action
    /\ \E in \in HoldFrames : RanFrame(in)

\* update, the button up
UpdateRelease ==
    /\ ~editor.panicked
    /\ \E in \in ReleaseFrames : RanFrame(in)

\* update, a key down
UpdateKey ==
    /\ ~editor.panicked
    /\ \E in \in KeyFrames : RanFrame(in)

\* draw, the tool bar selecting a tool
DrawTool ==
    /\ ~editor.panicked
    /\ \E a \in [type : {"SelectTool"},
                  id : {None, Some("TilePlacementTool"), Some("SpawnPointPlacementTool")}] :
          Ran(draw(editor, Some(a)), a)

NextFrames == UpdateClick \/ UpdateHold \/ UpdateRelease \/ UpdateKey \/ DrawTool

SpecFrames == Init /\ [][NextFrames]_vars

C7_WitnessSpawnPoint ==
    /\ ~editor.panicked
    /\ last.drag.phase = "dropped" /\ last.drag.what = "SpawnPoint" /\ last.drag.moved
    /\ Stack[Cursor].type = "MoveSpawnPoint"

(***************************************************************************)
(* Properties of the dispatch.                                             *)
(***************************************************************************)
\* C11: after every apply_action the selected layer, if any, is in draw_order, the
\* selected tileset, if any, is a tileset of the map, and no tile is selected without
\* a tileset; and SelectLayer with an id that is no layer of the map leaves
\* selected_layer as it was.
C11_SelectionRefersToMap ==
    /\ (~editor.panicked /\ last.type # "new")
         => /\ is_some(editor.selected_layer)
                 => Contains(editor.map.draw_order, unwrap(editor.selected_layer))
            /\ is_some(editor.selected_tileset)
                 => unwrap(editor.selected_tileset) \in DOMAIN editor.map.tilesets
            /\ is_none(editor.selected_tileset) => is_none(editor.selected_tile)
    /\ \A id \in LayerIds :
         (~editor.panicked /\ id \notin DOMAIN editor.map.layers)
            => apply_action(editor, [type |-> "SelectLayer", id |-> id]).selected_layer
                  = editor.selected_layer

KeepsMapAndHistory(e, e1) ==
    ~e1.panicked /\ e1.map = e.map /\ e1.history = e.history

\* C14: Undo with the cursor at 0 and Redo with the cursor at the end of the stack
\* return Ok and leave the map, the undo stack and the cursor as they were, be it
\* dispatched as an action or by the undo or redo key of a frame: no error, no panic.
C14_UndoRedoAtTheEndsAreNoOps ==
    [][/\ (last'.type = "Undo" /\ Cursor = 0) => KeepsMapAndHistory(editor, editor')
       /\ (last'.type = "Redo" /\ Cursor = Len(Stack)) => KeepsMapAndHistory(editor, editor')
       /\ Cursor = 0 => /\ EditorHistory_undo(editor.history, editor.map).ok
                        /\ KeepsMapAndHistory(editor,
                              update(editor, [QuietFrame EXCEPT !.undo = TRUE]))
       /\ Cursor = Len(Stack)
             => /\ EditorHistory_redo(editor.history, editor.map).ok
                /\ KeepsMapAndHistory(editor,
                      update(editor, [QuietFrame EXCEPT !.redo = TRUE]))]_vars

\* Redo was dispatched on a history of applied actions none of which was undone
C14_Witness ==
    /\ ~editor.panicked
    /\ last.type = "Redo"
    /\ Stack # << >> /\ Cursor = Len(Stack) /\ editor.low = Cursor

\* the dispatch of OpenMap or CreateMap a led from e to e1: a replaced map comes with
\* an empty history, on which Undo and Redo change nothing; a failed CreateMap leaves
\* the map and the history
ReplacedMapHasNoHistory(e, a, e1) ==
    IF a.type = "OpenMap" \/ a.io_ok
    THEN /\ ~e1.panicked
         /\ e1.history = EditorHistory_new
         /\ KeepsMapAndHistory(e1, apply_action(e1, [type |-> "Undo"]))
         /\ KeepsMapAndHistory(e1, apply_action(e1, [type |-> "Redo"]))
    ELSE KeepsMapAndHistory(e, e1)

\* C15: OpenMap and a successful CreateMap empty the history (stack empty, cursor 0)
\* in the dispatch that replaces the map, so that a later Undo or Redo applies
\* nothing of the previous map to the new one; a failed CreateMap replaces nothing
\* and keeps the history.
C15_ReplacingTheMapClearsHistory ==
    ~editor.panicked
        => \A a \in MapActions :
              a.type \in {"OpenMap", "CreateMap"}
                 => ReplacedMapHasNoHistory(editor, a, apply_action(editor, a))

\* a map was opened or created over a history that was not empty
C15_Witness ==
    /\ ~editor.panicked
    /\ last.type \in {"OpenMap", "CreateMap"}
    /\ Stack = << >> /\ Cursor = 0

\* what may follow a failing action in a batch
FollowUps ==
    {[type |-> "OpenCreateLayerWindow", window |-> "CreateLayerWindow"],
     [type |-> "SelectTool", id |-> Some("SpawnPointPlacementTool")],
     [type |-> "CreateMap", io_ok |-> TRUE, is_user_map |-> FALSE]}

\* C16: an error of EditorHistory::apply, undo or redo during apply_action is
\* fatal: the process panics with the editor as the failing arm left it (no
\* update_context runs), and when the failing action is in a Batch, nested or not,
\* none of the sub-actions after it is applied.
C16_HistoryErrorsAreFatal ==
    ~editor.panicked
        => \A a \in EditActions \cup {[type |-> "Undo"], [type |-> "Redo"]} :
              ~apply_arm(editor, a).ok
                 => /\ apply_action(editor, a) = Panic(apply_arm(editor, a).e)
                    /\ \A x \in FollowUps :
                          /\ apply_action(editor, [type |-> "Batch", actions |-> << a, x >>])
                                = Panic(apply_arm(editor, a).e)
                          /\ apply_action(editor,
                                [type |-> "Batch",
                                 actions |-> << [type |-> "Batch", actions |-> << a >>], x >>])
                                = Panic(apply_arm(editor, a).e)

\* the history reported an error for the action that was dispatched, and the
\* process is gone
C16_Witness ==
    /\ editor.panicked
    /\ last.type = "HistoryError"

\* C17: a failing create_map (CreateMap), save_map (SaveMap) or delete_map
\* (DeleteMap) does not end the editor and leaves the map resource, the history and
\* the selection as they were, but for the update_context of the tail.
C17_MapErrorsAreNotFatal ==
    ~editor.panicked
        => \A a \in MapActions :
              (a.type \in {"CreateMap", "SaveMap", "DeleteMap"} /\ ~a.io_ok)
                 => apply_action(editor, a) = update_context(editor)

(***************************************************************************)
(* Batches and callbacks.                                                  *)
(***************************************************************************)
\* sub-actions whose order in a batch shows in the editor they leave
OrderedActions ==
    WindowActions
    \cup [type : {"SelectLayer"}, id : LayerIds]
    \cup {[type |-> "DeleteLayer", id |-> "objects"]}

\* a batch of the actions in s
Batch(s) == [type |-> "Batch", actions |-> s]

\* a dispatched after the batch has returned from its sub-actions, the last of which
\* led to e1: the tail of the batch (update_context) runs on e1 first
AfterBatch(e1, a) == apply_action(apply_tail(Res(e1, TRUE)), a)

\* C18: Batch([a1, ..., an]) dispatches its sub-actions in list order, each with its
\* full effect (map, history, windows, and its own update_context) before the next
\* starts, a nested batch being run through in place: the batch leaves the editor
\* that a1, ..., an dispatched one after the other leave, then its own tail.
C18_BatchAppliesInListOrder ==
    ~editor.panicked
        => /\ \A a, b \in OrderedActions :
                 apply_action(editor, Batch(<< a, b >>))
                    = apply_tail(Res(apply_action(apply_action(editor, a), b), TRUE))
           /\ \A a \in OrderedActions :
                 apply_action(editor,
                    Batch(<< Batch(<< a, [type |-> "DeleteLayer", id |-> "bg"] >>),
                             [type |-> "Undo"] >>))
                    = apply_tail(Res(
                         AfterBatch(apply_action(apply_action(editor, a),
                                                 [type |-> "DeleteLayer", id |-> "bg"]),
                                    [type |-> "Undo"]), TRUE))

\* a window button built with close_action.then(X) was pressed while its window was
\* open: the window is closed
C18_Witness ==
    /\ ~editor.panicked
    /\ last.type = "Batch"
    /\ "CreateLayerWindow" \notin editor.windows

\* C19: draw never changes the map or the history: both are the same at the end of
\* draw as at its start (every step of Spec is one call of draw).
C19_DrawKeepsMapAndHistory ==
    [][~editor'.panicked => KeepsMapAndHistory(editor, editor')]_vars

(***************************************************************************)
(* The editor opened on a map with a tile layer and two object layers,     *)
(* driven by clicks on the map and by the layer list.                      *)
(***************************************************************************)
\* a tile layer holding one tile below two object layers holding one object each,
\* and one spawn point
ClickMap ==
    [SampleMap EXCEPT
        !.layers = WithKey(@, "items",
                      [MapLayer("items", "ObjectLayer", FALSE) EXCEPT
                          !.objects = << MapObject("sproinger", "Item", 1) >>]),
        !.draw_order = << "bg", "objects", "items" >>]

\* the frames in which the button goes down over the map: what is under the cursor,
\* and the order in which layers.keys() yields the layers
MapClicks ==
    {[QuietFrame EXCEPT !.action = TRUE, !.hits = h, !.layer_order = lo] :
        h \in SUBSET {[kind |-> "object", layer_id |-> "objects", index |-> 0],
                      [kind |-> "object", layer_id |-> "items", index |-> 0],
                      [kind |-> "spawn_point", index |-> 0],
                      [kind |-> "tile", layer_id |-> "bg", coords |-> << 0, 0 >>]},
        lo \in {<< "bg", "objects", "items" >>, << "bg", "items", "objects" >>,
                << "objects", "bg", "items" >>, << "items", "objects", "bg" >>}}

InitClicks ==
    /\ editor = Editor_new(ClickMap)
    /\ last = Remembered(editor, [type |-> "new"])
    /\ NoEmitter

\* update, the button going down over the map
PressOnMap ==
    /\ ~editor.panicked /\ ~editor.input_action
    /\ \E in \in MapClicks : RanFrame(in)

NextClicks == PressOnMap \/ UpdateRelease \/ DrawSelect

SpecClicks == InitClicks /\ [][NextClicks]_vars

\* the object layers with an object under the cursor
HitObjectLayers(in) == {h.layer_id : h \in {g \in in.hits : g.kind = "object"}}

\* the layer whose object is to be acted on: the selected layer if an object of it
\* is under the cursor, else the front-most one in draw_order
FrontObjectLayer(e, in) ==
    IF is_some(e.selected_layer) /\ unwrap(e.selected_layer) \in HitObjectLayers(in)
    THEN unwrap(e.selected_layer)
    ELSE e.map.draw_order[CHOOSE i \in 1..Len(e.map.draw_order) :
            /\ e.map.draw_order[i] \in HitObjectLayers(in)
            /\ \A j \in (i + 1)..Len(e.map.draw_order) :
                  e.map.draw_order[j] \notin HitObjectLayers(in)]

\* the element under the cursor that is to be acted on: an object before a spawn
\* point before a tile
FirstMatch(e, in) ==
    IF HitObjectLayers(in) # {}
    THEN CHOOSE h \in in.hits : h.kind = "object" /\ h.layer_id = FrontObjectLayer(e, in)
    ELSE IF \E h \in in.hits : h.kind = "spawn_point"
    THEN CHOOSE h \in in.hits : h.kind = "spawn_point"
    ELSE CHOOSE h \in in.hits : h.kind = "tile"

\* C20: when the button goes down over the map with no tool selected, an object
\* under the cursor wins over any spawn point and a spawn point over any tile; among
\* the object layers the selected one comes first and the others by draw order; the
\* frame acts on the first match alone, as if nothing else were under the cursor.
\* With nothing under the cursor no object, spawn point or tile is selected after.
C20_HitTestPriority ==
    (~editor.panicked /\ ~editor.input_action /\ is_none(editor.selected_tool))
        => \A in \in MapClicks :
              IF in.hits = {}
              THEN /\ is_none(update(editor, in).selected_object)
                   /\ is_none(update(editor, in).selected_spawn_point)
                   /\ is_none(update(editor, in).selected_map_tile_index)
              ELSE update(editor, in)
                      = update(editor, [in EXCEPT !.hits = {FirstMatch(editor, in)}])

(***************************************************************************)
(* Double clicks and drags.                                                *)
(***************************************************************************)
\* a double click: the button goes down with in, comes up before the double click
\* timer has run out, and goes down again with in
DoubleClick(e, in) == update(update(update(e, in), QuietFrame), in)

\* the properties window of the kind of element that h is
PropertiesWindow(h) ==
    IF h.kind = "object" THEN "ObjectPropertiesWindow" ELSE "TilePropertiesWindow"

\* C21: a double click on an object or a tile (the second press within the
\* threshold of the first, no movement, no drag, no tool) opens the properties window
\* of the element, whether or not the element was selected before the first click.
C21_DoubleClickOpensProperties ==
    (/\ ~editor.panicked /\ ~editor.input_action /\ ~editor.double_click_armed
     /\ is_none(editor.selected_tool))
        => \A in \in MapClicks : \A h \in in.hits :
              (/\ in.hits = {h} /\ h.kind \in {"object", "tile"}
               /\ PropertiesWindow(h) \notin editor.windows)
                 => PropertiesWindow(h) \in DoubleClick(editor, in).windows

\* C22: a release of the button with no drag under way leaves the map and the
\* history as they were, and so does a drag of the selected object or spawn point
\* that is dropped without the cursor having moved in any of its frames.
C22_ReleaseWithoutMoveKeepsHistory ==
    /\ (~editor.panicked /\ is_none(editor.dragged_object))
          => \A in \in ReleaseFrames : KeepsMapAndHistory(editor, update(editor, in))
    /\ (last.drag.phase = "dropped" /\ ~last.drag.moved)
          => ~editor.panicked /\ Cursor = last.drag.base /\ Len(Stack) = last.drag.base

(***************************************************************************)
(* Properties of the map-changing actions.                                 *)
(***************************************************************************)
\* the sequence s without x
Without(s, x) == SelectSeq(s, LAMBDA y : y # x)

\* the map of the editor, and ClickMap with its three layers in every draw order
DrawOrderMaps ==
    {editor.map}
    \cup {[ClickMap EXCEPT !.draw_order = p] :
            p \in {<< "bg", "objects", "items" >>, << "bg", "items", "objects" >>,
                   << "objects", "bg", "items" >>, << "objects", "items", "bg" >>,
                   << "items", "bg", "objects" >>, << "items", "objects", "bg" >>}}

\* r is the outcome of SetLayerDrawOrderIndex a on the map m: a.id is at
\* min(index, len), the other ids are in the order they were in, and undo gives the
\* draw order of m back
MovedInDrawOrder(m, a, r) ==
    /\ r.ok
    /\ Len(r.map.draw_order) = Len(m.draw_order)
    /\ r.map.draw_order[Min(a.index, Len(m.draw_order) - 1) + 1] = a.id
    /\ Without(r.map.draw_order, a.id) = Without(m.draw_order, a.id)
    /\ [r.map EXCEPT !.draw_order = m.draw_order] = m
    /\ SetLayerDrawOrderIndexAction_undo(r.action, r.map).ok
    /\ SetLayerDrawOrderIndexAction_undo(r.action, r.map).map = m

\* C24: SetLayerDrawOrderIndex{id, index} takes id out of draw_order and puts it
\* back at min(index, len), len being the length after the removal, the other ids
\* keeping their order; its undo puts id back at the index it had.
C24_SetLayerDrawOrderIndex ==
    ~editor.panicked
        => \A m \in DrawOrderMaps :
              \A a \in [type : {"SetLayerDrawOrderIndex"}, id : DOMAIN m.layers,
                        index : 0..(MaxIndex + 1)] :
                 MovedInDrawOrder(m, a, UndoableAction_apply(a, m))

\* a layer was moved to another place in draw_order
C24_Witness ==
    /\ ~editor.panicked
    /\ last.type = "SetLayerDrawOrderIndex"
    /\ Len(editor.trail) >= 2
    /\ editor.map.draw_order # editor.trail[Len(editor.trail) - 1].draw_order

\* r is the outcome of DeleteLayer a on the map m: the layer is gone from the
\* mapping and from draw_order, the rest of the map is as it was, and undo gives m
\* back, the layer with its content at the index it had
DeletedAndRestored(m, a, r) ==
    /\ r.ok
    /\ DOMAIN r.map.layers = DOMAIN m.layers \ {a.id}
    /\ \A l \in DOMAIN r.map.layers : r.map.layers[l] = m.layers[l]
    /\ r.map.draw_order = Without(m.draw_order, a.id)
    /\ [r.map EXCEPT !.layers = m.layers, !.draw_order = m.draw_order] = m
    /\ UndoableAction_undo(r.action, r.map).ok
    /\ UndoableAction_undo(r.action, r.map).map = m

\* C25: DeleteLayer(id) removes the layer from the layer mapping and its id from
\* draw_order; its undo puts the same layer back, with its tiles or objects and its
\* flags, at the index of draw_order it had.
C25_DeleteLayerUndoRestores ==
    ~editor.panicked
        => \A m \in DrawOrderMaps :
              \A a \in [type : {"DeleteLayer"}, id : DOMAIN m.layers] :
                 DeletedAndRestored(m, a, UndoableAction_apply(a, m))

\* the first of two layers, one that holds a tile or an object, was deleted and the
\* deletion undone
C25_Witness ==
    /\ ~editor.panicked
    /\ last.type = "Undo"
    /\ Cursor < Len(Stack)
    /\ Stack[Cursor + 1].type = "DeleteLayer"
    /\ Stack[Cursor + 1].draw_order_index = 0
    /\ Stack[Cursor + 1].layer # MapLayer(Stack[Cursor + 1].id, Stack[Cursor + 1].layer.kind, FALSE)
    /\ Len(editor.map.draw_order) = 2
    /\ editor.map.draw_order[1] = Stack[Cursor + 1].id
    /\ editor.map = editor.trail[Cursor + 1]

\* the map of the editor, and the same map with longer lists of spawn points
SpawnPointMaps ==
    {editor.map}
    \cup {[editor.map EXCEPT !.spawn_points = s] :
            s \in {<< 0, 1, 2 >>, << 1, 0, 1 >>, << 2, 2 >>}}

\* r is the outcome of DeleteSpawnPoint a on the map m: the entries before a.index
\* are in place, the later ones one place down, and undo gives m back
RemovedSpawnPoint(m, a, r) ==
    /\ r.ok
    /\ Len(r.map.spawn_points) = Len(m.spawn_points) - 1
    /\ \A j \in 1..Len(r.map.spawn_points) :
          r.map.spawn_points[j] = m.spawn_points[IF j <= a.index THEN j ELSE j + 1]
    /\ [r.map EXCEPT !.spawn_points = m.spawn_points] = m
    /\ UndoableAction_undo(r.action, r.map).ok
    /\ UndoableAction_undo(r.action, r.map).map = m

\* r is the outcome of CreateSpawnPoint or MoveSpawnPoint a on the map m: undo
\* gives m back
UndoneSpawnPoint(m, a, r) ==
    /\ r.ok
    /\ UndoableAction_undo(r.action, r.map).ok
    /\ UndoableAction_undo(r.action, r.map).map = m

\* C26: DeleteSpawnPoint(i) removes exactly the entry at index i, the entries before
\* i keeping index and value and the entries after i moving down by one; undoing it,
\* and undoing CreateSpawnPoint or MoveSpawnPoint, gives the sequence back as it was.
C26_SpawnPointIndexStability ==
    ~editor.panicked
        => \A m \in SpawnPointMaps :
              /\ \A a \in [type : {"DeleteSpawnPoint"},
                           index : 0..(Len(m.spawn_points) - 1)] :
                    RemovedSpawnPoint(m, a, UndoableAction_apply(a, m))
              /\ \A a \in [type : {"CreateSpawnPoint"}, position : Pos]
                          \cup [type : {"MoveSpawnPoint"},
                                index : 0..(Len(m.spawn_points) - 1), position : Pos] :
                    UndoneSpawnPoint(m, a, UndoableAction_apply(a, m))

\* the first of two spawn points was deleted and the deletion undone
C26_Witness ==
    /\ ~editor.panicked
    /\ last.type = "Undo"
    /\ Cursor < Len(Stack)
    /\ Stack[Cursor + 1].type = "DeleteSpawnPoint" /\ Stack[Cursor + 1].index = 0
    /\ Len(editor.map.spawn_points) = 2
    /\ editor.map.spawn_points[1] # editor.map.spawn_points[2]
    /\ editor.map = editor.trail[Cursor + 1]

\* the content of the cell that the tile action a is about
CellOf(e, a) == e.map.layers[a.layer_id].tiles[a.coords]

\* RemoveTile on the cell of a
RemoveTileOf(a) == [type |-> "RemoveTile", layer_id |-> a.layer_id, coords |-> a.coords]

\* e1 is the editor after PlaceTile a was dispatched on e, e2 the editor after
\* RemoveTile on the same cell was dispatched on e1
PlacedThenRemoved(e, a, e1, e2) ==
    /\ CellOf(e1, a) = Some(MapTile(a.id, a.tileset_id))
    /\ ~e2.panicked
    /\ CellOf(e2, a) = None
    /\ e2.history.cursor = e.history.cursor + 2
    /\ Len(e2.history.undo_stack) = e.history.cursor + 2
    /\ CellOf(apply_action(e2, [type |-> "Undo"]), a) = Some(MapTile(a.id, a.tileset_id))
    /\ apply_action(e2, [type |-> "Undo"]).map = e1.map
    /\ CellOf(apply_action(e1, [type |-> "Undo"]), a) = CellOf(e, a)
    /\ apply_action(e1, [type |-> "Undo"]).map = e.map

\* C27: PlaceTile(t) on a cell followed by RemoveTile on the same cell leaves the
\* cell empty with two history entries, and one Undo brings the cell back to t;
\* PlaceTile followed by Undo brings back what the cell held before, a tile or none.
C27_TileActionsCaptureTheCell ==
    ~editor.panicked
        => \A a \in [type : {"PlaceTile"}, id : 0..1, layer_id : LayerIds,
                     tileset_id : TilesetIds, coords : Coords] :
              ~apply_action(editor, a).panicked
                 => PlacedThenRemoved(editor, a, apply_action(editor, a),
                       apply_action(apply_action(editor, a), RemoveTileOf(a)))

\* a tile was placed on a cell and removed again, and the removal undone
C27_Witness ==
    /\ ~editor.panicked
    /\ last.type = "Undo"
    /\ Cursor = 1 /\ Len(Stack) = 2
    /\ Stack[1].type = "PlaceTile" /\ Stack[2].type = "RemoveTile"
    /\ Stack[1].layer_id = Stack[2].layer_id /\ Stack[1].coords = Stack[2].coords
    /\ CellOf(editor, Stack[1]) = Some(MapTile(Stack[1].id, Stack[1].tileset_id))

\* e1 is the editor after Import a was dispatched on e: one history entry more, the
\* given tilesets in the map, and one Undo gives the map of e back
ImportedAsOneStep(e, a, e1) ==
    /\ ~e1.panicked
    /\ e1.history.cursor = e.history.cursor + 1
    /\ Len(e1.history.undo_stack) = e.history.cursor + 1
    /\ e1.history.undo_stack[e1.history.cursor].type = "Import"
    /\ \A i \in 1..Len(a.tilesets) : a.tilesets[i].id \in DOMAIN e1.map.tilesets
    /\ is_some(a.background_color) => e1.map.background_color = unwrap(a.background_color)
    /\ ~apply_action(e1, [type |-> "Undo"]).panicked
    /\ apply_action(e1, [type |-> "Undo"]).map = e.map
    /\ apply_action(e1, [type |-> "Undo"]).history.cursor = e.history.cursor

\* C28: Import{tilesets, background_color, background_layers} adds exactly one
\* history entry, and a single Undo removes every imported tileset and puts back the
\* background colour and layers, and the tilesets and background values that the
\* import overwrote.
C28_ImportIsOneUndoableStep ==
    ~editor.panicked
        => \A a \in BackgroundActions :
              a.type = "Import" => ImportedAsOneStep(editor, a, apply_action(editor, a))

\* an import that overwrote a tileset of the map was undone
C28_Witness ==
    /\ ~editor.panicked
    /\ last.type = "Undo"
    /\ Cursor < Len(Stack)
    /\ Stack[Cursor + 1].type = "Import"
    /\ Stack[Cursor + 1].tilesets # << >>
    /\ Stack[Cursor + 1].tilesets[1].id \in DOMAIN Stack[Cursor + 1].old_tilesets
    /\ Stack[Cursor + 1].tilesets[1].id \in DOMAIN editor.map.tilesets
    /\ editor.map = editor.trail[Cursor + 1]

(***************************************************************************)
(* Selections of the elements on the map.                                  *)
(***************************************************************************)
\* C29: in every reachable state selected_spawn_point is None or an index smaller
\* than the number of spawn points of the map, also after DeleteSpawnPoint, after an
\* Undo of CreateSpawnPoint, after a Redo of DeleteSpawnPoint and after the map is
\* replaced; the lookup spawn_points[index] at the begin of a drag is in range and
\* the frame does not panic.
C29_SpawnPointSelectionInRange ==
    /\ ~editor.panicked
          => (is_some(editor.selected_spawn_point)
                => unwrap(editor.selected_spawn_point) < Len(editor.map.spawn_points))
    /\ last.type = "frame" => ~editor.panicked

\* C30: where SelectObject is only dispatched for objects that exist (the clicks on
\* the map), an object is selected only in a selected, existing object layer that
\* holds more objects than its index, also after an Undo, a Redo and a DeleteLayer;
\* so neither a frame with the button held (the begin of a drag) nor a frame with the
\* delete key down panics while an object is selected.
C30_ObjectSelectionValidInFrames ==
    /\ ~editor.panicked => ObjectSelectionValid(editor)
    /\ (~editor.panicked /\ is_some(editor.selected_object)
          /\ is_none(editor.selected_spawn_point))
          => /\ editor.input_action
                  => \A in \in HoldFrames : ~update(editor, in).panicked
             /\ \A in \in KeyFrames : in.delete => ~update(editor, in).panicked

(***************************************************************************)
(* Drags and the keys.                                                     *)
(***************************************************************************)
\* the element captured by the drag in progress, if any, is still on the map
DragTargetValid(e) ==
    is_some(e.dragged_object)
        => IF unwrap(e.dragged_object).type = "MapObject"
           THEN /\ IsLayerOfKind(e.map, unwrap(e.dragged_object).layer_id, "ObjectLayer")
                /\ unwrap(e.dragged_object).index
                      < Len(e.map.layers[unwrap(e.dragged_object).layer_id].objects)
                /\ e.map.layers[unwrap(e.dragged_object).layer_id]
                      .objects[unwrap(e.dragged_object).index + 1].id
                      = unwrap(e.dragged_object).id
                /\ e.map.layers[unwrap(e.dragged_object).layer_id]
                      .objects[unwrap(e.dragged_object).index + 1].kind
                      = unwrap(e.dragged_object).kind
           ELSE unwrap(e.dragged_object).index < Len(e.map.spawn_points)

\* C31: while a drag is in progress the captured object or spawn point stays on the
\* map at the captured index, whatever keys (undo, redo, delete) are pressed during
\* the drag, and the UpdateObject or MoveSpawnPoint committed on release never fails.
C31_DragTargetStaysValid ==
    /\ ~editor.panicked => DragTargetValid(editor)
    /\ (~editor.panicked /\ is_some(editor.dragged_object))
          => \A in \in ReleaseFrames : ~update(editor, in).panicked

\* C32: a batch is transparent: Batch([a]) leaves the editor that a dispatched
\* directly leaves, and Batch([a, b]) the editor that a and then b, dispatched one
\* after the other, leave (map, history and all selections).
C32_BatchIsTransparent ==
    ~editor.panicked
        => \A a \in OrderedActions :
              /\ apply_action(editor, Batch(<< a >>)) = apply_action(editor, a)
              /\ apply_action(editor, Batch(<< [type |-> "SelectLayer", id |-> "bg"], a >>))
                    = apply_action(apply_action(editor,
                                      [type |-> "SelectLayer", id |-> "bg"]), a)

(***************************************************************************)
(* Clicks and the selections of the elements on the map.                   *)
(***************************************************************************)
\* the object named by hit h is on the map of e and is not the selected object
OtherObject(e, h) ==
    /\ h.kind = "object"
    /\ IsLayerOfKind(e.map, h.layer_id, "ObjectLayer")
    /\ h.index < Len(e.map.layers[h.layer_id].objects)
    /\ ~(e.selected_object = Some(h.index) /\ e.selected_layer = Some(h.layer_id))

\* C33: a single click, no tool selected, on an object that is not the selected
\* object selects it: afterwards selected_layer is its layer and selected_object its
\* index, also when the selected object of another layer has the same index.
C33_ClickSelectsTheObject ==
    (~editor.panicked /\ ~editor.input_action /\ ~editor.double_click_armed
        /\ is_none(editor.selected_tool))
        => \A in \in MapClicks : \A h \in in.hits :
              (in.hits = {h} /\ OtherObject(editor, h))
                 => /\ update(editor, in).selected_object = Some(h.index)
                    /\ update(editor, in).selected_layer = Some(h.layer_id)

\* the number of selected elements of the map: an object, a spawn point, a map tile
SelectedElements(e) ==
    Len(e.selected_object) + Len(e.selected_spawn_point) + Len(e.selected_map_tile_index)

\* C34: at most one of selected_object, selected_spawn_point and
\* selected_map_tile_index is Some in every state: the click that selects an element
\* of one kind clears the selection of another kind.
C34_OneElementSelected ==
    ~editor.panicked => SelectedElements(editor) <= 1

\* the selected map tile, if any, goes with a selected, existing tile layer
MapTileSelectionValid(e) ==
    is_some(e.selected_map_tile_index)
        => /\ is_some(e.selected_layer)
           /\ IsLayerOfKind(e.map, unwrap(e.selected_layer), "TileLayer")

\* C35: a selected map tile stays bound to its layer: while selected_map_tile_index
\* is Some, selected_layer is Some existing tile layer (the one the tile was clicked
\* in), so that the delete key with a map tile and no object selected removes the
\* tile from that layer and does not fail.
C35_MapTileStaysBoundToLayer ==
    /\ ~editor.panicked => MapTileSelectionValid(editor)
    /\ (~editor.panicked /\ is_some(editor.selected_map_tile_index)
          /\ is_none(editor.selected_object))
          => \A in \in KeyFrames :
                (in.delete /\ ~in.action) => ~update(editor, in).panicked

(***************************************************************************)
(* Which actions change the map.                                           *)
(***************************************************************************)
\* the selection actions, the window actions and SaveMap
DocumentKeepingActions ==
    SelectActions \cup WindowActions \cup [type : {"SaveMap"}, name : {None}, io_ok : BOOLEAN]

\* e1 holds one history entry more than e: the entries up to the cursor of e, then
\* the new one, the cursor behind it
OneMoreEntry(e, e1) ==
    /\ e1.history.cursor = e.history.cursor + 1
    /\ Len(e1.history.undo_stack) = e.history.cursor + 1
    /\ SubSeq(e1.history.undo_stack, 1, e.history.cursor)
          = SubSeq(e.history.undo_stack, 1, e.history.cursor)

\* the map after Redo is the same with the dispatch of a in between: e1 is the
\* editor after Undo
RedoAcross(e1, a) ==
    apply_action(apply_action(e1, a), [type |-> "Redo"]).map
        = apply_action(e1, [type |-> "Redo"]).map

\* C36: a selection action, a window action or SaveMap leaves the map and the history
\* (stack and cursor) as they were; each action that changes the map and applies adds
\* exactly one history entry; so Undo, a selection or window action, Redo gives the
\* map that Undo, Redo gives.
C36_OnlyMapActionsTouchTheDocument ==
    ~editor.panicked
        => /\ \A a \in DocumentKeepingActions :
                 /\ KeepsMapAndHistory(editor, apply_action(editor, a))
                 /\ RedoAcross(apply_action(editor, [type |-> "Undo"]), a)
           /\ \A a \in EditActions :
                 ~apply_action(editor, a).panicked
                    => OneMoreEntry(editor, apply_action(editor, a))

\* an action was undone; a selection action now changes the selection, and the Redo
\* after it changes the map
C36_Witness ==
    /\ ~editor.panicked /\ last.type = "Undo" /\ Cursor < Len(Stack)
    /\ apply_action(editor, [type |-> "Redo"]).map # editor.map
    /\ \E a \in SelectActions :
          /\ apply_action(editor, a) # editor
          /\ apply_action(apply_action(editor, a), [type |-> "Redo"]).map # editor.map
    /\ \E a \in EditActions : ~apply_action(editor, a).panicked

(***************************************************************************)
(* The tool and the button.                                                *)
(***************************************************************************)
\* the frames in which the button is down, as they can follow the frame before
PressFrames(e) == IF e.input_action THEN HoldFrames ELSE ClickFrames

\* get_action of the selected tool is called in the frame in that leads from e
ToolTriggers(e, in) ==
    /\ in.action /\ ~in.over_gui
    /\ ~e.input_action \/ Tool_is_continuous(unwrap(e.selected_tool))

\* the frame that led from e to e1 left the selections of the elements of the map
\* and the drag as they were
KeepsElementSelections(e, e1) ==
    /\ e1.selected_object = e.selected_object
    /\ e1.selected_spawn_point = e.selected_spawn_point
    /\ e1.selected_map_tile_index = e.selected_map_tile_index
    /\ e1.dragged_object = e.dragged_object

\* the frame in, the button down and a tool selected, led from e to e1: the action of
\* the tool was dispatched exactly if the tool was triggered
PressedWithTool(e, in, e1) ==
    ~e1.panicked
        => /\ e1.history # e.history <=> (ToolTriggers(e, in) /\ is_some(in.tool_action))
           /\ KeepsElementSelections(e, e1)

\* C37: with a tool selected, a frame with the button down calls get_action of a tool
\* that is not continuous only if the button went down in this frame and the cursor
\* is over the map, and of a continuous tool in every frame with the cursor over the
\* map; the press changes no selection of an object, spawn point or map tile and
\* starts no drag.
C37_ToolTriggeredPerPress ==
    (~editor.panicked /\ is_some(editor.selected_tool))
        => \A in \in PressFrames(editor) : PressedWithTool(editor, in, update(editor, in))

\* a tool that is not continuous is selected and the button is held down over the
\* map: the tool has an action to give and is not asked for it
C37_Witness ==
    /\ ~editor.panicked /\ editor.input_action
    /\ editor.selected_tool = Some("SpawnPointPlacementTool")
    /\ \E in \in HoldFrames :
          /\ ~in.over_gui /\ is_some(in.tool_action)
          /\ update(editor, in).history = editor.history
          /\ ~update(editor, in).panicked

(***************************************************************************)
(* The delete key.                                                         *)
(***************************************************************************)
\* the frames in which the delete key alone is down
DeleteFrames == {in \in KeyFrames : in.delete /\ ~in.action}

\* the frame led from e to e1 by one map-changing action of the given type
DispatchedOne(e, e1, type) ==
    /\ OneMoreEntry(e, e1)
    /\ e1.history.undo_stack[e1.history.cursor].type = type

\* the delete key led from e to e1: one action by priority, its selection cleared,
\* the other selections kept
DeletePressed(e, e1) ==
    IF is_some(e.selected_object)
    THEN /\ DispatchedOne(e, e1, "DeleteObject")
         /\ is_none(e1.selected_object)
         /\ e1.selected_map_tile_index = e.selected_map_tile_index
         /\ e1.selected_spawn_point = e.selected_spawn_point
    ELSE IF is_some(e.selected_map_tile_index)
    THEN /\ DispatchedOne(e, e1, "RemoveTile")
         /\ is_none(e1.selected_map_tile_index)
         /\ e1.selected_spawn_point = e.selected_spawn_point
    ELSE IF is_some(e.selected_spawn_point)
    THEN /\ DispatchedOne(e, e1, "DeleteSpawnPoint")
         /\ is_none(e1.selected_spawn_point)
    ELSE e1.map = e.map /\ e1.history = e.history

\* C38: one delete input dispatches at most one map-changing action, by priority:
\* DeleteObject for the selected object, else RemoveTile for the selected map tile,
\* else DeleteSpawnPoint for the selected spawn point; exactly that selection is
\* cleared, and with nothing selected map and history stay as they are.
C38_DeleteByPriority ==
    (~editor.panicked /\ is_none(editor.dragged_object))
        => \A in \in DeleteFrames :
              ~update(editor, in).panicked => DeletePressed(editor, update(editor, in))

(***************************************************************************)
(* Saving the map.                                                         *)
(***************************************************************************)
\* the map resource of the editor: its meta data and the map
Resource(e) == << e.name, e.path, e.is_user_map, e.is_tiled_map, e.map >>

\* the frames in which the save key is down
SaveFrames == {[QuietFrame EXCEPT !.save = TRUE, !.io_ok = io] : io \in BOOLEAN}

\* the names a SaveMap comes with
SaveNames == {None, Some("export")}

SaveMap(name, io_ok) == [type |-> "SaveMap", name |-> name, io_ok |-> io_ok]

\* e1 is e after a SaveMap(name) that was written
Saved(e, name, e1) ==
    /\ ~e1.panicked
    /\ e1.is_user_map /\ ~e1.is_tiled_map
    /\ e1.map = e.map /\ e1.history = e.history
    /\ IF is_some(name)
       THEN e1.name = unwrap(name) /\ e1.path = << "exports", unwrap(name) >>
       ELSE e1.name = e.name /\ e1.path = e.path

\* the frame in with the save key down led from e to e1: a user map is saved under
\* its name, for any other map the save window opens and nothing is written
SaveRouted(e, in, e1) ==
    /\ ~e1.panicked
    /\ e1.map = e.map /\ e1.history = e.history
    /\ IF e.is_user_map
       THEN /\ Resource(e1) = Resource(apply_action(e, SaveMap(None, in.io_ok)))
            /\ e1.windows = e.windows
       ELSE /\ Resource(e1) = Resource(e)
            /\ e1.windows = e.windows \cup {"SaveMapWindow"}

InitParticles ==
    /\ editor = Editor_new(NewMap)
    /\ last = Remembered(editor, [type |-> "new"])
    /\ emitter \in {ParticleEmitter_new(meta) : meta \in EmitterMetadata}
    /\ emitted = NothingEmitted

\* activate is called
ActivateEmitter ==
    /\ emitted.activations < MaxActivations
    /\ emitter' = ParticleEmitter_activate(emitter)
    /\ emitted' = [NothingEmitted EXCEPT !.activations = emitted.activations + 1]
    /\ UNCHANGED << editor, last >>

\* update_particle_emitters with the frame time delta_time, within the time and the
\* number of spawns that are followed
UpdateEmitter(delta_time) ==
    /\ emitted.elapsed + delta_time <= MaxTime
    /\ emitted.spawned <= MaxEmissions
    /\ emitter' = update_one_particle_emitter(delta_time, emitter).emitter
    /\ emitted' = Emitted(emitted, delta_time,
                          update_one_particle_emitter(delta_time, emitter).spawn)
    /\ UNCHANGED << editor, last >>

\* a frame
UpdateParticleEmitters == \E delta_time \in DeltaTimes : UpdateEmitter(delta_time)

\* a frame that takes time
TimeGoesBy == \E delta_time \in DeltaTimes \ {0} : UpdateEmitter(delta_time)

NextParticles == ActivateEmitter \/ UpdateParticleEmitters

\* frames that take time keep coming
SpecParticles == InitParticles /\ [][NextParticles]_vars /\ WF_vars(TimeGoesBy)

\* the emitter has a number of emissions, one at least
Limited(em) == is_some(em.emissions) /\ unwrap(em.emissions) >= 1

\* what holds of the emitter in every state
EmissionsInTime ==
    /\ is_some(emitted.last_at) => unwrap(emitted.last_at) >= emitter.delay
    /\ is_some(emitted.last_gap) => unwrap(emitted.last_gap) >= emitter.interval
    /\ Limited(emitter)
          => /\ emitter.is_active => emitted.spawned < unwrap(emitter.emissions)
             /\ ~emitter.is_active
                   => \/ emitted.spawned = unwrap(emitter.emissions)
                      \/ emitted.spawned = 0 /\ emitted.activations = 0
    /\ (emitter.emissions = None /\ emitter.is_active)
          => /\ update_one_particle_emitter(emitter.delay + emitter.interval, emitter).spawn
             /\ update_one_particle_emitter(emitter.delay + emitter.interval, emitter)
                   .emitter.is_active
    /\ (emitter.emissions = None /\ ~emitter.is_active)
          => emitted.spawned = 0 /\ emitted.activations = 0
    /\ ~emitter.is_active
          => \A delta_time \in DeltaTimes :
                update_one_particle_emitter(delta_time, emitter) = Updated(emitter, FALSE)

\* C40: after activate (or new with should_autostart) an emitter with emissions =
\* Some(n), n >= 1, spawns exactly n times: no spawn before the delay has gone by, no
\* two spawns closer than the interval, and after the n-th it is inactive and spawns
\* nothing until the next activate; an emitter with emissions = None stays active and
\* goes on spawning; update leaves an inactive emitter as it is.
C40_EmissionCount ==
    /\ []EmissionsInTime
    /\ (emitter.is_active /\ Limited(emitter))
          ~> (/\ Limited(emitter) /\ ~emitter.is_active
              /\ emitted.spawned = unwrap(emitter.emissions))

\* an emitter with a delay, an interval and two emissions was activated, has spawned
\* twice and is inactive
C40_Witness ==
    /\ emitter.delay > 0 /\ emitter.interval > 0 /\ emitter.emissions = Some(2)
    /\ emitted.activations >= 1 /\ emitted.spawned = 2 /\ ~emitter.is_active
    /\ unwrap(emitted.last_gap) >= emitter.interval

====
